---- MODULE Spec2Model ----
(***************************************************************************)
(* Model of the LEGO stock bot: the stock checker (lego_checker.py), the   *)
(* poll scheduler (monitor.py) and the watch store (database.py).          *)
(*                                                                         *)
(* Strings of the program are kept as strings; "contains" tests of the     *)
(* code (keyword in text) are tables over the finite vocabulary used.      *)
(* Python None is the string "None".  Time is kept relative to now: a      *)
(* timestamp is modelled by its age, and ages of the rate-limit delay or   *)
(* more are not told apart.                                                *)
(***************************************************************************)
EXTENDS Integers, Sequences, FiniteSets, TLC

None == "None"

(***************************************************************************)
(* Bounds of the model.                                                    *)
(***************************************************************************)
MaxDur == 1
MaxIdle == 2
MaxCycles == 2

(***************************************************************************)
(* Program constants.                                                      *)
(***************************************************************************)
RATE_LIMIT_DELAY_SECONDS == 2

Min(a, b) == IF a <= b THEN a ELSE b

(***************************************************************************)
(* Set codes and URLs.  A URL is its path template and the set code put    *)
(* into it.  One set code contains the digits 403, the other does not.     *)
(***************************************************************************)
SetCodes == {"10312", "40312"}

Has403(s) == s = "40312"

BASE_URL == [path |-> "https://www.lego.com", code |-> ""]

_get_product_urls(set_code) ==
    << [path |-> "/en-us/product/{set_code}", code |-> set_code],
       [path |-> "/en-us/product/lego-set-{set_code}", code |-> set_code],
       [path |-> "/product/{set_code}", code |-> set_code] >>

SearchUrl(set_code) == [path |-> "/en-us/search?q={set_code}", code |-> set_code]

(***************************************************************************)
(* Parsed documents.  text is the set of text fragments of the page, meta  *)
(* the content of <meta property="product:availability"> ("absent" when    *)
(* the tag is missing), sticky whether the add-to-bag-sticky-container div *)
(* exists, buttons the <button> elements inside it in document order,      *)
(* outside the <button> elements elsewhere on the page.  Fragments stand   *)
(* in separate elements of the page, whitespace between them.              *)
(***************************************************************************)
Fragments ==
    { "Pre-order this item today, it will ship from March 3, 2026",
      "Coming Soon on February 27, 2026",
      "Available now",
      "Temporarily out of stock",
      "Sold out",
      "Add to Bag",
      "Retired product",
      "Pre-order now. Ships from April 5, 2026",
      "Available March 1, 2026" }

\* keyword in fragment.lower()
FragmentHas(f, kw) ==
    CASE f = "Pre-order this item today, it will ship from March 3, 2026"
            -> kw \in {"pre-order", "ship from"}
      [] f = "Coming Soon on February 27, 2026" -> kw \in {"coming soon"}
      [] f = "Available now" -> kw \in {"available now"}
      [] f = "Temporarily out of stock"
            -> kw \in {"temporarily out of stock", "out of stock"}
      [] f = "Sold out" -> kw \in {"sold out"}
      [] f = "Add to Bag" -> kw \in {"add to bag"}
      [] f = "Pre-order now. Ships from April 5, 2026" -> kw \in {"pre-order", "ships from"}
      [] OTHER -> FALSE

MetaContents == {"InStock", "OutOfStock", "PreOrder", "BackOrder", "Discontinued"}

\* a tag tier that matches no content
MetaHasNothing(content, token) == FALSE

\* token in content.lower()
MetaHas(content, token) ==
    CASE content = "InStock" -> token \in {"instock"}
      [] content = "OutOfStock" -> token \in {"outofstock"}
      [] content = "PreOrder" -> token \in {"preorder"}
      [] content = "BackOrder" -> token \in {"backorder"}
      [] OTHER -> FALSE

ButtonTexts == {"", "Add to Bag", "Pre-order Now", "Notify me", "Add to Wishlist", "Close"}

\* keyword in label.lower()
LabelHas(label, kw) ==
    CASE label = "Add to Bag" -> kw \in {"add to bag"}
      [] label = "Pre-order Now" -> kw \in {"pre-order"}
      [] label = "Add to Wishlist" -> kw \in {"wishlist"}
      [] label = "Close" -> kw \in {"close"}
      [] OTHER -> FALSE

\* get_text() with the attributes of the buttons counted as text
InPageTextWithLabels(doc, kw) ==
    \/ \E f \in doc.text : FragmentHas(f, kw)
    \/ \E k \in 1 .. Len(doc.buttons) :
          LabelHas(doc.buttons[k].text, kw) \/ LabelHas(doc.buttons[k].aria, kw)
    \/ \E k \in 1 .. Len(doc.outside) :
          LabelHas(doc.outside[k].text, kw) \/ LabelHas(doc.outside[k].aria, kw)

\* keyword in soup.get_text().lower(): the fragments and the texts of the
\* buttons, inside the container and outside it
InPageText(doc, kw) ==
    \/ \E f \in doc.text : FragmentHas(f, kw)
    \/ doc.sticky /\ \E k \in 1 .. Len(doc.buttons) : LabelHas(doc.buttons[k].text, kw)
    \/ \E k \in 1 .. Len(doc.outside) : LabelHas(doc.outside[k].text, kw)

skip_keywords == {"wishlist", "close", "cancel", "dismiss", "x"}
purchase_keywords == {"add to bag", "add to cart", "pre-order", "preorder", "buy", "purchase"}

IsPurchaseButton(b) ==
    /\ ~ \E kw \in skip_keywords : LabelHas(b.text, kw) \/ LabelHas(b.aria, kw)
    /\ \/ \E kw \in purchase_keywords : LabelHas(b.text, kw)
       \/ \E kw \in purchase_keywords : LabelHas(b.aria, kw)
       \/ b.data_test = "add-to-cart"
    /\ (b.text # "" \/ b.aria # "")

RECURSIVE FirstPurchase(_)
FirstPurchase(buttons) ==
    IF buttons = << >> THEN None
    ELSE IF IsPurchaseButton(Head(buttons))
         THEN (IF Head(buttons).text # "" THEN Head(buttons).text ELSE Head(buttons).aria)
         ELSE FirstPurchase(Tail(buttons))

\* a detection that takes the first purchase button of the whole page
DetectButtonAnywhere(doc) ==
    FirstPurchase(doc.buttons \o doc.outside)

_detect_button(doc) ==
    IF ~ doc.sticky THEN None ELSE FirstPurchase(doc.buttons)

\* the date matchers in order: "ship from <date>", "coming soon on <date>",
\* "available <date>"; "Ships from <date>" matches none of them
_extract_shipping_date(doc) ==
    IF "Pre-order this item today, it will ship from March 3, 2026" \in doc.text
    THEN "Ships from March 3, 2026"
    ELSE IF "Coming Soon on February 27, 2026" \in doc.text
         THEN "Available February 27, 2026"
         ELSE IF "Available March 1, 2026" \in doc.text
              THEN "Available March 1, 2026"
              ELSE None

\* re.search(r'(?:ship|ships)\s+from\s+<date>', page_text) on the lowered text
ShipsFromDate(doc) ==
    IF "Pre-order this item today, it will ship from March 3, 2026" \in doc.text
    THEN "Ships from march 3, 2026"
    ELSE IF "Pre-order now. Ships from April 5, 2026" \in doc.text
         THEN "Ships from april 5, 2026"
         ELSE None

NoDetail == [code |-> 200, url |-> BASE_URL, names_url |-> FALSE]

Msg(text) == [text |-> text, date |-> None, detail |-> NoDetail]

MsgDate(text, date) == [text |-> text, date |-> date, detail |-> NoDetail]

\* a classifier that reports a page it cannot classify as an error
StatusUnknownAsError(available, status, message, button) ==
    [available |-> available, status |-> IF status = "unknown" THEN "error" ELSE status,
     message |-> message, button_detected |-> button]

\* a default result that leaves the button out
StatusWithoutButton(available, status, message, button) ==
    [available |-> available, status |-> status, message |-> message,
     button_detected |-> IF status = "unknown" THEN None ELSE button]

Status(available, status, message, button) ==
    [available |-> available, status |-> status, message |-> message,
     button_detected |-> button]

\* a classifier that knows "sold out" only
OnlySoldOut == {"sold out"}

out_of_stock_keywords == {"out of stock", "sold out", "unavailable", "temporarily out of stock"}

\* a body tier that tests the stock keywords before the pre-order ones
BodyTierStockFirst(doc, button_detected, shipping_info) ==
    IF \E kw \in out_of_stock_keywords : InPageText(doc, kw)
    THEN Status(FALSE, "out_of_stock", Msg("Out of Stock"), button_detected)
    ELSE IF \E kw \in {"available now", "in stock", "add to cart", "add to bag"} :
                InPageText(doc, kw)
    THEN Status(TRUE, "in_stock", Msg("In Stock"), button_detected)
    ELSE IF \E kw \in {"pre-order", "preorder", "coming soon"} : InPageText(doc, kw)
    THEN Status(FALSE, "pre_order", Msg("Pre-Order Available"), button_detected)
    ELSE Status(FALSE, "unknown", Msg("Status Unknown"), button_detected)

\* the page-text tier and the default
BodyTier(doc, button_detected, shipping_info) ==
    IF InPageText(doc, "pre-order") \/ InPageText(doc, "preorder")
    THEN Status(FALSE, "pre_order",
                IF shipping_info # None THEN MsgDate("Pre-Order - ", shipping_info)
                ELSE IF (InPageText(doc, "ship from") \/ InPageText(doc, "ships from"))
                        /\ ShipsFromDate(doc) # None
                     THEN MsgDate("Pre-Order - ", ShipsFromDate(doc))
                     ELSE Msg("Pre-Order Available"),
                button_detected)
    ELSE IF InPageText(doc, "coming soon")
    THEN Status(FALSE, "pre_order",
                IF shipping_info # None THEN MsgDate("Coming Soon - ", shipping_info)
                                        ELSE Msg("Coming Soon"),
                button_detected)
    ELSE IF InPageText(doc, "available now")
    THEN Status(TRUE, "in_stock", Msg("In Stock"), button_detected)
    ELSE IF \E kw \in out_of_stock_keywords : InPageText(doc, kw)
    THEN Status(FALSE, "out_of_stock", Msg("Out of Stock"), button_detected)
    ELSE IF \E kw \in {"in stock", "add to cart", "add to bag"} : InPageText(doc, kw)
    THEN Status(TRUE, "in_stock", Msg("In Stock"), button_detected)
    ELSE Status(FALSE, "unknown", Msg("Status Unknown"), button_detected)

_check_stock_status(doc) ==
    LET button_detected == _detect_button(doc)
        shipping_info == _extract_shipping_date(doc)
        meta == doc.meta
    IN  IF meta # "absent" /\ (MetaHas(meta, "in stock") \/ MetaHas(meta, "instock"))
        THEN Status(TRUE, "in_stock", Msg("In Stock"), button_detected)
        ELSE IF meta # "absent" /\ (MetaHas(meta, "out of stock") \/ MetaHas(meta, "outofstock")
                                     \/ MetaHas(meta, "oos"))
        THEN Status(FALSE, "out_of_stock", Msg("Out of Stock"), button_detected)
        ELSE IF meta # "absent" /\ (MetaHas(meta, "preorder") \/ MetaHas(meta, "pre-order"))
        THEN Status(FALSE, "pre_order",
                    IF shipping_info # None THEN MsgDate("Pre-Order - ", shipping_info)
                                            ELSE Msg("Pre-Order Available"),
                    button_detected)
        ELSE IF meta # "absent" /\ MetaHas(meta, "backorder")
        THEN Status(FALSE, "out_of_stock", Msg("Backorder"), button_detected)
        ELSE BodyTier(doc, button_detected, shipping_info)

\* first selector with a non-empty text wins
RECURSIVE FirstNonEmpty(_)
FirstNonEmpty(texts) ==
    IF texts = << >> THEN ""
    ELSE IF Head(texts) # "" THEN Head(texts) ELSE FirstNonEmpty(Tail(texts))

_extract_set_name(doc, set_code) ==
    IF FirstNonEmpty(doc.names) # "" THEN << FirstNonEmpty(doc.names) >>
    ELSE << "LEGO Set ", set_code >>

HasCurrency(price) == price \in {"$59.99", "59,99 €"}

RECURSIVE FirstPrice(_)
FirstPrice(texts) ==
    IF texts = << >> THEN None
    ELSE IF Head(texts) # "" /\ HasCurrency(Head(texts)) THEN Head(texts)
         ELSE FirstPrice(Tail(texts))

_extract_price(doc) == FirstPrice(doc.prices)

Button(text, aria, data_test) == [text |-> text, aria |-> aria, data_test |-> data_test]

DocWith(meta, text, sticky, buttons, outside) ==
    [meta |-> meta, text |-> text, sticky |-> sticky, buttons |-> buttons,
     outside |-> outside,
     names |-> << "", "Eiffel Tower" >>, prices |-> << "59.99", "$59.99" >>]

Doc(meta, text, sticky, buttons) == DocWith(meta, text, sticky, buttons, << >>)

\* the pages the modelled site serves
Pages ==
    { Doc("InStock", {"Temporarily out of stock"}, TRUE, << Button("Add to Bag", "", "add-to-cart") >>),
      Doc("absent", {"Available now"}, FALSE, << >>),
      Doc("absent", {"Pre-order this item today, it will ship from March 3, 2026", "Add to Bag"},
          TRUE, << Button("", "Close", ""), Button("Pre-order Now", "", "") >>),
      Doc("PreOrder", {"Coming Soon on February 27, 2026"}, TRUE,
          << Button("Add to Wishlist", "", ""), Button("", "Add to Bag", "add-to-cart") >>),
      Doc("absent", {"Sold out"}, TRUE, << Button("Notify me", "", "") >>),
      Doc("absent", {"Retired product"}, FALSE, << >>) }

(***************************************************************************)
(* HTTP responses.  exc: session.get raised (transport error, timeout);    *)
(* otherwise code is the HTTP status and doc the parsed body.  parse_fails *)
(* stands for an exception raised while parsing or classifying the body.   *)
(* The text of an HTTPError quotes the URL, that of the other exceptions   *)
(* modelled here does not.                                                 *)
(***************************************************************************)
Resp(exc, code, doc, parse_fails) ==
    [exc |-> exc, code |-> code, doc |-> doc, parse_fails |-> parse_fails]

AnyPage == CHOOSE d \in Pages : d.meta = "InStock"

Responses ==
    { Resp(FALSE, 200, d, FALSE) : d \in Pages }
    \cup { Resp(FALSE, 200, AnyPage, TRUE),
           Resp(FALSE, 403, AnyPage, FALSE),
           Resp(FALSE, 404, AnyPage, FALSE),
           Resp(TRUE, 0, AnyPage, FALSE) }

NoResponse == Resp(TRUE, 0, AnyPage, FALSE)

\* str(e): an HTTPError reads "<code> Client Error: <reason> for url: <url>"
ErrorDetail(resp, url) ==
    IF resp.exc THEN [code |-> 0, url |-> url, names_url |-> FALSE]
    ELSE IF resp.code >= 400 THEN [code |-> resp.code, url |-> url, names_url |-> TRUE]
    ELSE [code |-> 0, url |-> url, names_url |-> FALSE]

\* '403' in error_msg or 'Forbidden' in error_msg
Mentions403(detail) ==
    detail.code = 403 \/ (detail.names_url /\ Has403(detail.url.code))

Returns(value) == [raised |-> FALSE, value |-> value]

Raises(value) == [raised |-> TRUE, value |-> value]

\* a warm-up whose failure is not caught
InitializeSessionUncaught(ok) ==
    IF ok THEN Returns([requested |-> TRUE, cookies |-> TRUE])
    ELSE Raises([requested |-> TRUE, cookies |-> FALSE])

\* _initialize_session: GET of the site root; ok is whether the request
\* succeeded; an exception is logged and swallowed
_initialize_session(ok) == Returns([requested |-> TRUE, cookies |-> ok])

ErrorResult(set_code, url, message) ==
    [available |-> FALSE, status |-> "error", set_name |-> << "Set ", set_code >>,
     price |-> None, url |-> url, message |-> message, button_detected |-> None]

\* a handler that catches the 403 case only
FetchExceptOnly403(detail, url, set_code) ==
    IF Mentions403(detail)
    THEN Returns(ErrorResult(set_code, url,
             [text |-> "403 Forbidden: LEGO.com is blocking automated requests. Please try again later.",
              date |-> None, detail |-> NoDetail]))
    ELSE Raises(ErrorResult(set_code, url,
             [text |-> "Error fetching product page: ", date |-> None, detail |-> detail]))

\* the except clause of _fetch_product_page
FetchExcept(detail, url, set_code) ==
    IF Mentions403(detail)
    THEN Returns(ErrorResult(set_code, url,
             [text |-> "403 Forbidden: LEGO.com is blocking automated requests. Please try again later.",
              date |-> None, detail |-> NoDetail]))
    ELSE Returns(ErrorResult(set_code, url,
             [text |-> "Error fetching product page: ", date |-> None, detail |-> detail]))

\* a client that never recreates its session
NeverFreshSession(resp) == FALSE

\* response.status_code == 403: recreate the scraper and try again
NeedsFreshSession(resp) == ~ resp.exc /\ resp.code = 403

\* raise_for_status, parse, extract, classify; any exception goes to the except clause
FetchOutcome(resp, url, set_code) ==
    IF resp.exc \/ resp.code >= 400 \/ resp.parse_fails
    THEN FetchExcept(ErrorDetail(resp, url), url, set_code)
    ELSE LET stock_status == _check_stock_status(resp.doc)
         IN  Returns([available |-> stock_status.available,
                      status |-> stock_status.status,
                      set_name |-> _extract_set_name(resp.doc, set_code),
                      price |-> _extract_price(resp.doc),
                      url |-> url,
                      message |-> stock_status.message,
                      button_detected |-> stock_status.button_detected])

\* '403' in result['message'] or 'Forbidden' in result['message']
MessageMentions403(message) ==
    \/ message.text = "403 Forbidden: LEGO.com is blocking automated requests. Please try again later."
    \/ (message.text = "Error fetching product page: " /\ Mentions403(message.detail))

\* a loop that stops on available results only
UseAvailableResult(result) == result.available

\* if result['status'] != 'error': return result
UseResult(result) == result.status # "error"

\* "return the last error result": the error reported under the last candidate
AllFailedAtLastUrl(set_code) ==
    ErrorResult(set_code, _get_product_urls(set_code)[3],
        Msg("Unable to access LEGO.com. The site may be blocking automated requests. Please try again later or check the set code."))

AllFailedResult(set_code) ==
    ErrorResult(set_code, _get_product_urls(set_code)[1],
        Msg("Unable to access LEGO.com. The site may be blocking automated requests. Please try again later or check the set code."))

(***************************************************************************)
(* Search results: the hrefs of the <a> elements of the search page.       *)
(***************************************************************************)
Link(path, code, relative) == [path |-> path, code |-> code, relative |-> relative]

LinkLists ==
    { << >>,
      << Link("/en-us/themes", "", TRUE), Link("/en-us/product/eiffel-tower-{code}", "10312", TRUE) >>,
      << Link("/en-us/product/eiffel-tower-{code}", "40312", FALSE) >>,
      << Link("/en-us/service/help-{code}", "10312", TRUE) >> }

\* a scan that follows the first product link, whatever set it is of
LinkHasMarker(link, set_code) ==
    link.path = "/en-us/product/eiffel-tower-{code}"

\* '/en-us/product/' in href and set_code in href
LinkMatches(link, set_code) ==
    link.path = "/en-us/product/eiffel-tower-{code}" /\ link.code = set_code

\* a URL that is None
NoUrl == [path |-> None, code |-> ""]

RECURSIVE FirstLink(_, _)
FirstLink(links, set_code) ==
    IF links = << >> THEN NoUrl
    ELSE IF LinkMatches(Head(links), set_code)
         THEN [path |-> Head(links).path, code |-> Head(links).code]
         ELSE FirstLink(Tail(links), set_code)

SearchResponses ==
    { [exc |-> FALSE, code |-> 200, links |-> l] : l \in LinkLists }
    \cup { [exc |-> FALSE, code |-> 403, links |-> << >>],
           [exc |-> TRUE, code |-> 0, links |-> << >>] }

\* _search_for_set after the request: the URL found, or None
SearchOutcome(resp, set_code) ==
    IF resp.exc \/ resp.code >= 400 THEN Returns(NoUrl)
    ELSE Returns(FirstLink(resp.links, set_code))

\* str(set_code).strip()
InputCodes == {"10312", "40312", " 10312 "}

Strip(s) == IF s = " 10312 " THEN "10312" ELSE s

(***************************************************************************)
(* State of the LEGOChecker.                                               *)
(*                                                                         *)
(* time_since_last is time.time() - self.last_request_time, cookies        *)
(* whether the warm-up of the current session succeeded, warmed whether    *)
(* the current session has requested the site root.  pc is the             *)
(* position inside check_stock, target which request the position belongs  *)
(* to, set_code/idx/url/response/result the locals of check_stock and      *)
(* _fetch_product_page.                                                    *)
(* History of the current call: fetched (URLs handed to                    *)
(* _fetch_product_page), fetch_results (what it returned), searched, links *)
(* (the hrefs of the <a> elements the search request was answered with),   *)
(* codes                                                                   *)
(* (status codes answered within the current fetch, 0 for an exception),   *)
(* recreations (sessions recreated within the current fetch), usable (some *)
(* request was answered with a page that parsed), escaped (an exception    *)
(* left check_stock).                                                      *)
(* History of the requests: time_since_http is the time since the start of *)
(* the most recent HTTP request, gap the time between the starts of the    *)
(* two most recent ones, time_since_done the time since the most recent    *)
(* HTTP request completed, requests the number of HTTP requests made since *)
(* check_stock was entered.                                                *)
(***************************************************************************)
VARIABLES time_since_last, cookies, warmed,
          pc, target, set_code, idx, url, response, result,
          fetched, fetch_results, searched, links, codes, recreations, usable, escaped,
          time_since_http, gap, time_since_done, requests

checkerVars == << time_since_last, cookies, warmed,
                  pc, target, set_code, idx, url, response, result,
                  fetched, fetch_results, searched, links, codes, recreations, usable, escaped,
                  time_since_http, gap, time_since_done, requests >>

(***************************************************************************)
(* State of the watch store and of the Monitor.                            *)
(*                                                                         *)
(* watched_sets and server_settings are the two tables (a function from    *)
(* row id to row, and from guild id to channel id; an unset guild, channel *)
(* or timestamp is 0).  now is datetime.now().  running is Monitor.running,*)
(* mpc the position of the monitor task: "unstarted", "loop" (head of the  *)
(* while), "load" (awaiting get_all_watches), "check" (head of the for     *)
(* body), "persist" (awaiting update_watch_status), "notify" (awaiting     *)
(* inside a send method), "checked" (end of the for body), "sleep"         *)
(* (awaiting asyncio.sleep), "cancelled", "done".  watches, watch_idx,     *)
(* watch and watch_result are the locals of _check_all_watches and         *)
(* _check_watch.                                                           *)
(* History of the current cycle: visited (ids handed to _check_watch),     *)
(* failed (ids whose check raised), cycles.  History of the current check: *)
(* persisted (the update was executed), emitted (kinds of the send         *)
(* methods called), attempts and sent (destinations tried, and reached).   *)
(***************************************************************************)
VARIABLES watched_sets, server_settings, now, running, mpc,
          watches, watch_idx, watch, watch_result,
          visited, failed, cycles, persisted, emitted, attempts, sent

monitorVars == << watched_sets, server_settings, now, running, mpc,
                  watches, watch_idx, watch, watch_result,
                  visited, failed, cycles, persisted, emitted, attempts, sent >>

(***************************************************************************)
(* State of the callers of the store.  next_id is the next value of the    *)
(* AUTOINCREMENT key of watched_sets.  op is the last call of add_watch or *)
(* remove_watch: its name, its arguments, what it returned, and (history)  *)
(* whether a record of that (user, guild, set code) was stored when it was *)
(* called.                                                                 *)
(***************************************************************************)
VARIABLES next_id, op

storeVars == << next_id, op >>

(***************************************************************************)
(* The two callers of check_stock on the shared LEGOChecker: the chat      *)
(* command and the monitor task, both coroutines of one event loop.  cpc   *)
(* is each caller's position ("idle", "rate_limit", "sleep", "request",    *)
(* "fetched"), read_age the time_since_last each one computed in           *)
(* _rate_limit, since_stamp the time since last_request_time was written,  *)
(* stamp_gap the time between its two most recent writes, stampers the     *)
(* callers that made these two writes.                                     *)
(***************************************************************************)
VARIABLES cpc, read_age, since_stamp, stamp_gap, stampers

callerVars == << cpc, read_age, since_stamp, stamp_gap, stampers >>

(***************************************************************************)
(* Calls of the classifier on parsed documents: document is the page under *)
(* test, classified the results of its classifications in order, other a   *)
(* second page classified in between and other_result its result.          *)
(***************************************************************************)
VARIABLES document, classified, other, other_result

classifierVars == << document, classified, other, other_result >>

(***************************************************************************)
(* One call of a send method: notification is what it is called with and   *)
(* what the chat platform answers, delivered what it attempted and reached *)
(* (called: whether it has run).                                           *)
(***************************************************************************)
VARIABLES notification, delivered

deliveryVars == << notification, delivered >>

\* the watch repository object: _initialized, and the last call made on it
VARIABLES initialized, last_call

repositoryVars == << initialized, last_call >>

\* the loop tasks created by start(), self.task, and the time the live loop
\* has slept since its last cycle
VARIABLES loop_tasks, task_handle, elapsed

lifecycleVars == << loop_tasks, task_handle, elapsed >>

auxVars == << callerVars, classifierVars, deliveryVars, repositoryVars, lifecycleVars >>

vars == << checkerVars, monitorVars, storeVars, auxVars >>

Durations == 0 .. MaxDur

\* ages of the delay or more are one value
Age(t) == Min(t, RATE_LIMIT_DELAY_SECONDS)

NoResult == ErrorResult("", BASE_URL, Msg(""))

\* LEGOChecker.__init__: last_request_time = 0 (long ago), scraper created,
\* warm-up GET just done
CheckerInit ==
    /\ time_since_last = Age(RATE_LIMIT_DELAY_SECONDS)
    /\ \E ok \in BOOLEAN :
         LET warm_up == _initialize_session(ok)
         IN  /\ ~ warm_up.raised
             /\ cookies = warm_up.value.cookies
             /\ warmed = warm_up.value.requested
    /\ pc = "idle"
    /\ target = "product"
    /\ set_code = ""
    /\ idx = 0
    /\ url = BASE_URL
    /\ response = NoResponse
    /\ result = NoResult
    /\ fetched = << >>
    /\ fetch_results = << >>
    /\ searched = FALSE
    /\ links = << >>
    /\ codes = << >>
    /\ recreations = 0
    /\ usable = FALSE
    /\ escaped = FALSE
    /\ time_since_http \in { Age(d) : d \in Durations }
    /\ gap = Age(RATE_LIMIT_DELAY_SECONDS)
    /\ time_since_done = 0
    /\ requests = 0

\* _rate_limit: how long it sleeps
SleepTime(since_last, delay) ==
    IF since_last < delay THEN delay - since_last ELSE 0

\* check_stock is entered: strip the code, build the candidates, take the first
CheckStock ==
    /\ UNCHANGED << monitorVars, storeVars, auxVars >>
    /\ pc \in {"idle", "returned"}
    /\ \E input \in InputCodes, idle \in 0 .. MaxIdle :
         /\ time_since_last' = Age(time_since_last + idle)
         /\ time_since_http' = Age(time_since_http + idle)
         /\ time_since_done' = Age(time_since_done + idle)
         /\ set_code' = Strip(input)
         /\ url' = _get_product_urls(Strip(input))[1]
    /\ idx' = 1
    /\ target' = "product"
    /\ pc' = "rate_limit"
    /\ result' = NoResult
    /\ fetched' = << >>
    /\ fetch_results' = << >>
    /\ searched' = FALSE
    /\ links' = << >>
    /\ usable' = FALSE
    /\ codes' = << >>
    /\ recreations' = 0
    /\ requests' = 0
    /\ UNCHANGED << cookies, warmed, response, escaped, gap >>

\* self._rate_limit() at the head of _fetch_product_page and of _search_for_set
RateLimit ==
    /\ UNCHANGED << monitorVars, storeVars, auxVars >>
    /\ pc = "rate_limit"
    /\ time_since_http' =
           Age(time_since_http + SleepTime(time_since_last, RATE_LIMIT_DELAY_SECONDS))
    /\ time_since_done' =
           Age(time_since_done + SleepTime(time_since_last, RATE_LIMIT_DELAY_SECONDS))
    /\ time_since_last' = 0
    /\ IF target = "search"
       THEN /\ searched' = TRUE
            /\ UNCHANGED << fetched, codes, recreations >>
       ELSE /\ fetched' = Append(fetched, url)
            /\ codes' = << >>
            /\ recreations' = 0
            /\ UNCHANGED searched
    /\ pc' = IF target = "search" THEN "search_get" ELSE "get"
    /\ UNCHANGED << cookies, warmed, target, set_code, idx, url, response, result,
                    fetch_results, links, usable, escaped, gap, requests >>

\* an HTTP request (a call of self.session.get) starts now and takes d
Request(d) ==
    /\ requests' = requests + 1
    /\ gap' = time_since_http
    /\ time_since_http' = Age(d)
    /\ time_since_last' = Age(time_since_last + d)
    /\ time_since_done' = 0

IsUsable(resp) == ~ resp.exc /\ resp.code < 400 /\ ~ resp.parse_fails

\* response = self.session.get(url, timeout=15), first attempt
Get ==
    /\ UNCHANGED << monitorVars, storeVars, auxVars >>
    /\ pc = "get"
    /\ \E resp \in Responses, d \in Durations :
         /\ Request(d)
         /\ response' = resp
         /\ codes' = Append(codes, resp.code)
         /\ usable' = (usable \/ IsUsable(resp))
         /\ pc' = IF NeedsFreshSession(resp) THEN "recreate" ELSE "parse"
    /\ UNCHANGED << cookies, warmed, target, set_code, idx, url, result,
                    fetched, fetch_results, searched, links, recreations, escaped >>

\* self.session = cloudscraper.create_scraper(...); self._initialize_session()
Recreate ==
    /\ UNCHANGED << monitorVars, storeVars, auxVars >>
    /\ pc = "recreate"
    /\ recreations' = recreations + 1
    /\ \E ok \in BOOLEAN, d \in Durations :
         /\ Request(d)
         /\ LET warm_up == _initialize_session(ok)
            IN  /\ cookies' = warm_up.value.cookies
                /\ warmed' = warm_up.value.requested
                /\ IF warm_up.raised
                   THEN pc' = "parse" /\ response' = NoResponse
                   ELSE pc' = "retry" /\ UNCHANGED response
    /\ UNCHANGED << target, set_code, idx, url, result,
                    fetched, fetch_results, searched, links, codes, usable, escaped >>

\* a retry that is repeated while the answer is 403
RetryWhile403(resp) == IF NeedsFreshSession(resp) THEN "recreate" ELSE "parse"

\* after the retry no status is tested again: response.raise_for_status()
AfterRetry(resp) == "parse"

\* response = self.session.get(url, timeout=15) with the fresh session
Retry ==
    /\ UNCHANGED << monitorVars, storeVars, auxVars >>
    /\ pc = "retry"
    /\ \E resp \in Responses, d \in Durations :
         /\ Request(d)
         /\ response' = resp
         /\ codes' = Append(codes, resp.code)
         /\ usable' = (usable \/ IsUsable(resp))
         /\ pc' = AfterRetry(resp)
    /\ UNCHANGED << cookies, warmed, target, set_code, idx, url, result,
                    fetched, fetch_results, searched, links, recreations, escaped >>

\* the rest of _fetch_product_page, and what check_stock does with its result
Parse ==
    /\ UNCHANGED << monitorVars, storeVars, auxVars >>
    /\ pc = "parse"
    /\ LET outcome == FetchOutcome(response, url, set_code)
           r == outcome.value
       IN  IF outcome.raised
           THEN /\ escaped' = TRUE
                /\ pc' = "raised"
                /\ UNCHANGED << target, idx, url, result, fetch_results >>
           ELSE /\ fetch_results' = Append(fetch_results, r)
                /\ UNCHANGED escaped
                /\ IF UseResult(r)
                   THEN /\ result' = r
                        /\ pc' = "returned"
                        /\ UNCHANGED << target, idx, url >>
                   ELSE IF target = "product" /\ idx < Len(_get_product_urls(set_code))
                   THEN /\ idx' = idx + 1
                        /\ url' = _get_product_urls(set_code)[idx + 1]
                        /\ pc' = "rate_limit"
                        /\ UNCHANGED << target, result >>
                   ELSE IF target = "product"
                   THEN /\ target' = "search"
                        /\ url' = SearchUrl(set_code)
                        /\ pc' = "rate_limit"
                        /\ UNCHANGED << idx, result >>
                   ELSE /\ result' = AllFailedResult(set_code)
                        /\ pc' = "returned"
                        /\ UNCHANGED << target, idx, url >>
    /\ UNCHANGED << time_since_last, cookies, warmed, set_code, response,
                    fetched, searched, links, codes, recreations, usable,
                    time_since_http, gap, time_since_done, requests >>

\* _search_for_set: the search request, the scan of its links, and the
\* "if search_url:" of check_stock
Search ==
    /\ UNCHANGED << monitorVars, storeVars, auxVars >>
    /\ pc = "search_get"
    /\ \E resp \in SearchResponses, d \in Durations :
         /\ Request(d)
         /\ links' = resp.links
         /\ LET outcome == SearchOutcome(resp, set_code)
                search_url == outcome.value
            IN  IF outcome.raised
                THEN /\ escaped' = TRUE
                     /\ pc' = "raised"
                     /\ UNCHANGED << target, url, result >>
                ELSE /\ UNCHANGED escaped
                     /\ IF search_url # NoUrl
                        THEN /\ target' = "found"
                             /\ url' = search_url
                             /\ pc' = "rate_limit"
                             /\ UNCHANGED result
                        ELSE /\ result' = AllFailedResult(set_code)
                             /\ pc' = "returned"
                             /\ UNCHANGED << target, url >>
    /\ UNCHANGED << cookies, warmed, set_code, idx, response,
                    fetched, fetch_results, searched, codes, recreations, usable >>

(***************************************************************************)
(* Properties of the stock checker.                                        *)
(***************************************************************************)
Statuses == {"in_stock", "out_of_stock", "pre_order", "unknown", "error"}

FetchDone == Len(fetched) > 0 /\ Len(fetch_results) = Len(fetched)

LastFetchResult == fetch_results[Len(fetch_results)]

\* C1: check_stock never raises to its caller; whatever the fetches answer
\* (HTTP error, transport exception, parse failure, failed search) it
\* returns a result, and when no request produced a usable page the result
\* has status 'error'.
C1_NeverRaises ==
    /\ ~ escaped
    /\ pc # "raised"
    /\ pc = "returned" =>
         /\ result.status \in Statuses
         /\ result.available \in BOOLEAN
         /\ (~ usable => result.status = "error")

\* every candidate and the search result were tried, none gave a usable page
C1_Witness ==
    /\ pc = "returned"
    /\ ~ usable
    /\ Len(fetch_results) = 4
    /\ response.parse_fails
    /\ fetch_results[1].message.detail.code = 404
    /\ result.status = "error"

\* C2: the candidates are tried in the order direct, prefixed, locale-less;
\* the first result that is not 'error' is returned, and after it no later
\* candidate and no search request is fetched.
C2_FirstNonErrorWins ==
    /\ \A k \in 1 .. Len(fetched) :
         k <= 3 => fetched[k] = _get_product_urls(set_code)[k]
    /\ Len(fetched) = 4 => searched
    /\ searched => Len(fetch_results) >= 3
    /\ \A k \in 1 .. Len(fetch_results) :
         IF fetch_results[k].status = "error"
         THEN pc = "returned" /\ result.status # "error" => k < Len(fetch_results)
         ELSE /\ k = Len(fetch_results)
              /\ Len(fetched) = k
              /\ pc = "returned"
              /\ result = fetch_results[k]
              /\ result.url = fetched[k]
              /\ result.status = _check_stock_status(response.doc).status
              /\ result.button_detected = _check_stock_status(response.doc).button_detected
              /\ (k <= 3 => ~ searched)

\* candidate 1 was refused with 403, candidate 2 classified, candidate 3 not fetched
C2_Witness ==
    /\ pc = "returned"
    /\ Len(fetched) = 2
    /\ MessageMentions403(fetch_results[1].message)
    /\ fetch_results[2].status = "out_of_stock"
    /\ result = fetch_results[2]
    /\ ~ searched

\* C3: on a 403 the session is recreated (new scraper, warm-up) exactly once
\* and the same URL is retried; a second 403 is returned as the FORBIDDEN
\* error, with no further retry or recreation within that fetch.
C3_OneRecreationPer403 ==
    /\ recreations <= 1
    /\ Len(codes) <= 2
    /\ pc = "recreate" => codes = << 403 >> /\ recreations = 0
    /\ pc = "retry" => codes = << 403 >> /\ recreations = 1
    /\ pc \in {"recreate", "retry"} => url = fetched[Len(fetched)]
    /\ FetchDone =>
         /\ Len(codes) >= 1
         /\ (codes[1] = 403 => recreations = 1 /\ Len(codes) = 2)
         /\ (codes[1] # 403 => recreations = 0 /\ Len(codes) = 1)
         /\ (codes = << 403, 403 >> =>
                /\ LastFetchResult.status = "error"
                /\ LastFetchResult.message.text =
                     "403 Forbidden: LEGO.com is blocking automated requests. Please try again later.")

\* a fetch that was refused twice
C3_Witness ==
    /\ FetchDone
    /\ codes = << 403, 403 >>
    /\ recreations = 1
    /\ LastFetchResult.status = "error"

\* C4: no HTTP request of the checker starts less than rate_limit_delay
\* after the previous one, the warm-up and the retry after a 403 included.
C4_Paced == gap >= RATE_LIMIT_DELAY_SECONDS

\* C15: a result returned by check_stock has status 'error' exactly when no
\* request of the call was answered with a page that could be fetched and
\* parsed; every error result, of a fetch or of the call, has available
\* False and button_detected None.
C15_ErrorIffNoPage ==
    /\ pc = "returned" =>
         /\ (result.status = "error") = (~ usable)
         /\ result.status = "error" =>
                result.available = FALSE /\ result.button_detected = None
    /\ \A k \in 1 .. Len(fetch_results) :
         fetch_results[k].status = "error" =>
             fetch_results[k].available = FALSE /\ fetch_results[k].button_detected = None

\* the three candidates failed, the last one with a body that did not
\* parse, and the search found no link: the error result
C15_Witness ==
    /\ pc = "returned"
    /\ ~ usable
    /\ Len(fetch_results) = 3
    /\ searched
    /\ response.parse_fails
    /\ result = AllFailedResult(set_code)
    /\ result.status = "error"
    /\ result.button_detected = None

\* the href has the product-path marker and the set code in it
IsProductLinkOf(link, code) ==
    link.path = "/en-us/product/eiffel-tower-{code}" /\ link.code = code

\* the search request has been answered and its links scanned
SearchDone == searched /\ ~ (target = "search" /\ pc \in {"rate_limit", "search_get"})

\* C17: the search request is made only after all three candidates returned
\* an error; a link of its answer is fetched only if it has the product
\* marker and the set code (the first such link); when there is one it is
\* fetched and classified, and its result is returned if it is not an error.
C17_SearchFallback ==
    /\ (searched \/ target \in {"search", "found"}) =>
         /\ Len(fetch_results) >= 3
         /\ \A k \in 1 .. 3 :
                /\ fetched[k] = _get_product_urls(set_code)[k]
                /\ fetch_results[k].status = "error"
    /\ Len(fetched) = 4 =>
         /\ SearchDone
         /\ \E k \in 1 .. Len(links) :
                /\ IsProductLinkOf(links[k], set_code)
                /\ \A j \in 1 .. k - 1 : ~ IsProductLinkOf(links[j], set_code)
                /\ fetched[4] = [path |-> links[k].path, code |-> links[k].code]
    /\ (SearchDone /\ \E k \in 1 .. Len(links) : IsProductLinkOf(links[k], set_code)) =>
         /\ target = "found"
         /\ pc = "rate_limit" \/ Len(fetched) = 4
         /\ pc # "returned" \/ Len(fetch_results) = 4
    /\ (pc = "returned" /\ Len(fetch_results) = 4) =>
         IF fetch_results[4].status = "error"
         THEN result = AllFailedResult(set_code)
         ELSE /\ result = fetch_results[4]
              /\ result.url = fetched[4]
              /\ result.status = _check_stock_status(response.doc).status

\* the second link of the search answer was followed and gave a pre-order page
C17_Witness ==
    /\ pc = "returned"
    /\ Len(fetched) = 4
    /\ Len(fetch_results) = 4
    /\ Len(links) = 2
    /\ ~ IsProductLinkOf(links[1], set_code)
    /\ fetched[4] = [path |-> links[2].path, code |-> links[2].code]
    /\ result = fetch_results[4]
    /\ result.status = "pre_order"

\* C18: a fetch whose last request failed with an HTTP error code other
\* than 403, or with a transport error, returns the "Error fetching product
\* page" error carrying the detail, never the 403 Forbidden error, whatever
\* the set code and the URL.
C18_OtherErrorsAreTransport ==
    (FetchDone /\ (response.exc \/ (response.code >= 400 /\ response.code # 403))) =>
        /\ LastFetchResult.status = "error"
        /\ LastFetchResult.message.text = "Error fetching product page: "
        /\ LastFetchResult.message.detail.code = response.code
        /\ LastFetchResult.message.text #
              "403 Forbidden: LEGO.com is blocking automated requests. Please try again later."

\* _rate_limit has returned and the request of a further fetch, or of the
\* search, of the call is about to start
NextRequestStarts == pc \in {"get", "search_get"} /\ Len(fetch_results) >= 1

\* C19: the interval is measured from the end of the previous request: a
\* request that follows another one of the same call starts no sooner than
\* rate_limit_delay after that one completed, however long it took.
C19_MeasuredFromEnd ==
    NextRequestStarts => time_since_done >= RATE_LIMIT_DELAY_SECONDS

\* C20: the session a product page is requested with has made its warm-up
\* request of the site root before; a warm-up that failed, in the
\* constructor or after a session recreation, does not keep product fetches
\* from being attempted: the retry after a recreation is issued and every
\* call fetches at least one candidate.
C20_WarmUpNonFatal ==
    /\ (pc \in {"get", "retry"} \/ Len(fetched) > 0) => warmed
    /\ (pc = "parse" /\ recreations = 1) => Len(codes) = 2
    /\ pc = "returned" => Len(fetched) >= 1 /\ Len(fetch_results) = Len(fetched)

\* the warm-up of the recreated session failed; the retry was made all the
\* same and was answered with a page
C20_Witness ==
    /\ pc = "returned"
    /\ ~ cookies
    /\ warmed
    /\ recreations = 1
    /\ codes = << 403, 200 >>
    /\ Len(fetched) = 1
    /\ result.status = "in_stock"

\* every fetch of the call failed, and the search was made
AllFailed ==
    /\ pc = "returned"
    /\ searched
    /\ Len(fetch_results) >= 3
    /\ \A k \in 1 .. Len(fetch_results) : fetch_results[k].status = "error"

Row(id, user_id, guild_id, code) ==
    [id |-> id, user_id |-> user_id, guild_id |-> guild_id, set_code |-> code,
     last_status |-> None, last_button_detected |-> None, last_checked |-> 0]

NoWatch == Row(0, 0, 0, "")

\* ORDER BY last_checked ASC, created_at ASC (rows are created in id order)
Before(a, b) ==
    \/ a.last_checked < b.last_checked
    \/ (a.last_checked = b.last_checked /\ a.id < b.id)

RECURSIVE SortRows(_)
SortRows(rows) ==
    IF rows = {} THEN << >>
    ELSE LET first == CHOOSE r \in rows : \A o \in rows \ {r} : Before(r, o)
         IN  << first >> \o SortRows(rows \ {first})

get_all_watches(table) == SortRows({ table[id] : id \in DOMAIN table })

\* an update that is skipped when the status did not change
update_watch_status_if_changed(table, watch_id, status, button_detected, t) ==
    [id \in DOMAIN table |->
        IF id = watch_id /\ table[id].last_status # status
        THEN [table[id] EXCEPT !.last_status = status,
                               !.last_button_detected = button_detected,
                               !.last_checked = t]
        ELSE table[id]]

\* an update that is left out when a status change is about to be notified
\* (the state to be stored only once the notification is delivered)
update_watch_status_unless_notifying(table, watch_id, status, button_detected, t) ==
    [id \in DOMAIN table |->
        IF id = watch_id /\ table[id].last_status \in {None, status}
        THEN [table[id] EXCEPT !.last_status = status,
                               !.last_button_detected = button_detected,
                               !.last_checked = t]
        ELSE table[id]]

\* UPDATE watched_sets SET last_status, last_button_detected, last_checked WHERE id = ?
update_watch_status(table, watch_id, status, button_detected, t) ==
    [id \in DOMAIN table |->
        IF id = watch_id
        THEN [table[id] EXCEPT !.last_status = status,
                               !.last_button_detected = button_detected,
                               !.last_checked = t]
        ELSE table[id]]

\* SELECT notification_channel_id FROM server_settings WHERE guild_id = ?
get_notification_channel(settings, guild_id) ==
    IF guild_id \in DOMAIN settings THEN settings[guild_id] ELSE 0

(***************************************************************************)
(* What check_stock can hand to the monitor: the classification of a page  *)
(* served under one of the URLs it fetches, or the final error result.     *)
(***************************************************************************)
FoundUrl(code) == [path |-> "/en-us/product/eiffel-tower-{code}", code |-> code]

CheckOutcomes(code) ==
    { FetchOutcome(Resp(FALSE, 200, d, FALSE), u, code).value :
        d \in Pages,
        u \in { _get_product_urls(code)[k] : k \in 1 .. 3 } \cup { FoundUrl(code) } }
    \cup { AllFailedResult(code) }

(***************************************************************************)
(* _check_watch: which send method is called after the update.             *)
(***************************************************************************)
\* a comparison that takes a failed check for no news
status_changed_unless_error(last_status, current_status) ==
    /\ last_status # None
    /\ last_status # current_status
    /\ "error" \notin {last_status, current_status}

status_changed(last_status, current_status) ==
    last_status # None /\ last_status # current_status

\* a test that only sees a button appear
button_appeared(last_button_detected, current_button_detected) ==
    /\ last_button_detected # current_button_detected
    /\ last_button_detected = None /\ current_button_detected # None

button_changed(last_button_detected, current_button_detected) ==
    /\ last_button_detected # current_button_detected
    /\ \/ (last_button_detected = None /\ current_button_detected # None)
       \/ (last_button_detected # None /\ current_button_detected # last_button_detected)

\* the same decision with the button tested before the status
ButtonFirstKind(last_status, current_status, last_button, current_button) ==
    IF last_status = None THEN "none"
    ELSE IF button_changed(last_button, current_button) THEN "button"
    ELSE IF status_changed(last_status, current_status) THEN "status"
    ELSE "none"

\* the same decision without the early return of the first check
NoFirstCheckKind(last_status, current_status, last_button, current_button) ==
    IF status_changed(last_status, current_status) THEN "status"
    ELSE IF button_changed(last_button, current_button) THEN "button"
    ELSE "none"

\* "if last_status is None: return" and the if/elif/else after it
NotificationKind(last_status, current_status, last_button, current_button) ==
    IF last_status = None THEN "none"
    ELSE IF status_changed(last_status, current_status) THEN "status"
    ELSE IF button_changed(last_button, current_button) THEN "button"
    ELSE "none"

\* _send_button_notification goes on to build a message
ButtonMessageBuilt(old_button, new_button) ==
    \/ (old_button = None /\ new_button # None)
    \/ (old_button # None /\ new_button # old_button)

(***************************************************************************)
(* Delivery.  env is what the chat platform answers: user ("cached",       *)
(* "fetched", "notfound", "error"), channel (the override channel: "sent", *)
(* "inaccessible", "send_fails"), dm ("sent", "forbidden", "error"), guild *)
(* (fallback over the text channels of the guild: "unknown_guild",         *)
(* "no_postable", "sent", "send_fails").                                   *)
(***************************************************************************)
Envs ==
    [user : {"cached", "fetched", "notfound", "error"},
     channel : {"sent", "inaccessible", "send_fails"},
     dm : {"sent", "forbidden", "error"},
     guild : {"unknown_guild", "no_postable", "sent", "send_fails"}]

Delivery(attempted, reached) == [attempts |-> attempted, sent |-> reached]

\* the part of the send methods after the embed is built
Deliver(guild_id, settings, env) ==
    IF env.user \in {"notfound", "error"} THEN Delivery(<< >>, << >>)
    ELSE
    LET channel_id == IF guild_id # 0 THEN get_notification_channel(settings, guild_id) ELSE 0
        first == IF channel_id = 0 \/ env.channel = "inaccessible" THEN Delivery(<< >>, << >>)
                 ELSE IF env.channel = "sent" THEN Delivery(<< "channel" >>, << "channel" >>)
                 ELSE Delivery(<< "channel" >>, << >>)
        notification_sent == first.sent # << >>
    IN  IF notification_sent THEN first
        ELSE IF env.dm = "sent"
        THEN Delivery(first.attempts \o << "dm" >>, << "dm" >>)
        ELSE IF env.dm = "forbidden" /\ guild_id # 0 /\ env.guild = "sent"
        THEN Delivery(first.attempts \o << "dm", "guild" >>, << "guild" >>)
        ELSE IF env.dm = "forbidden" /\ guild_id # 0 /\ env.guild = "send_fails"
        THEN Delivery(first.attempts \o << "dm", "guild" >>, << >>)
        ELSE Delivery(first.attempts \o << "dm" >>, << >>)

(***************************************************************************)
(* The monitor task.                                                       *)
(***************************************************************************)
\* positions at which the task is suspended in an await
Awaits == {"created", "load", "persist", "notify", "sleep"}

\* an exception of _check_watch that is not caught in the for body ends the
\* cycle in the except clause of _monitor_loop
UncaughtCheckFailure == "sleep"

\* "except Exception" around _check_watch: log, go on with the next watch
AfterCheckFailure == "checked"

\* a for body that started the check as a task of its own
\* (asyncio.create_task(self._check_watch(watch))) and went on
DispatchWithoutAwait == "checked"

\* "await self._check_watch(watch)": the for body goes on inside the check
AfterDispatch == "persist"

MonitorInit ==
    /\ watched_sets = [id \in {1, 2} |->
                          IF id = 1 THEN Row(1, 1, 1, "10312") ELSE Row(2, 2, 0, "40312")]
    /\ server_settings \in [{1} -> {0, 7}]
    /\ now = 1
    /\ running = FALSE
    /\ mpc = "unstarted"
    /\ watches = << >>
    /\ watch_idx = 0
    /\ watch = NoWatch
    /\ watch_result = NoResult
    /\ visited = << >>
    /\ failed = {}
    /\ cycles = 0
    /\ persisted = FALSE
    /\ emitted = << >>
    /\ attempts = << >>
    /\ sent = << >>

\* Monitor.start, called from on_ready; main() calls stop() on its way out
\* only, so no start follows a stop
Start ==
    /\ ~ running
    /\ mpc = "unstarted"
    /\ running' = TRUE
    /\ mpc' = "created"
    /\ UNCHANGED << watched_sets, server_settings, now, watches, watch_idx, watch, watch_result,
                    visited, failed, cycles, persisted, emitted, attempts, sent >>
    /\ UNCHANGED << checkerVars, storeVars, auxVars >>

\* Monitor.stop: running = False, task.cancel(), await the task
Stop ==
    /\ running
    /\ mpc \in Awaits
    /\ running' = FALSE
    /\ mpc' = "cancelled"
    /\ UNCHANGED << watched_sets, server_settings, now, watches, watch_idx, watch, watch_result,
                    visited, failed, cycles, persisted, emitted, attempts, sent >>
    /\ UNCHANGED << checkerVars, storeVars, auxVars >>

\* while self.running: await self._check_all_watches()
CycleBegin ==
    /\ mpc \in {"created", "loop"}
    /\ cycles < MaxCycles
    /\ IF running
       THEN /\ mpc' = "load"
            /\ cycles' = cycles + 1
            /\ visited' = << >>
            /\ failed' = {}
       ELSE /\ mpc' = "done"
            /\ UNCHANGED << cycles, visited, failed >>
    /\ UNCHANGED << watched_sets, server_settings, now, running, watches, watch_idx, watch,
                    watch_result, persisted, emitted, attempts, sent >>
    /\ UNCHANGED << checkerVars, storeVars, auxVars >>

\* watches = await self.db.get_all_watches(); if not watches: return
LoadWatches ==
    /\ mpc = "load"
    /\ watches' = get_all_watches(watched_sets)
    /\ IF watches' = << >>
       THEN mpc' = "sleep" /\ watch_idx' = 0
       ELSE mpc' = "check" /\ watch_idx' = 1
    /\ UNCHANGED << watched_sets, server_settings, now, running, watch, watch_result,
                    visited, failed, cycles, persisted, emitted, attempts, sent >>
    /\ UNCHANGED << checkerVars, storeVars, auxVars >>

\* head of the for body and the synchronous check_stock of _check_watch
CheckWatch ==
    /\ mpc = "check"
    /\ IF ~ running
       THEN /\ mpc' = "sleep"
            /\ UNCHANGED << watch, watch_result, visited, persisted, emitted, attempts, sent >>
       ELSE /\ watch' = watches[watch_idx]
            /\ visited' = Append(visited, watches[watch_idx].id)
            /\ persisted' = FALSE
            /\ emitted' = << >>
            /\ attempts' = << >>
            /\ sent' = << >>
            /\ \E r \in CheckOutcomes(Strip(watches[watch_idx].set_code)) :
                 /\ r.url = _get_product_urls(Strip(watches[watch_idx].set_code))[1]
                 /\ watch_result' = r
            /\ mpc' = AfterDispatch
    /\ UNCHANGED << watched_sets, server_settings, now, running, watches, watch_idx, failed, cycles >>
    /\ UNCHANGED << checkerVars, storeVars, auxVars >>

\* _check_watch raises an Exception: except clause of the for body
CheckWatchFails ==
    /\ mpc = "check"
    /\ running
    /\ watch' = watches[watch_idx]
    /\ visited' = Append(visited, watches[watch_idx].id)
    /\ failed' = failed \cup {watches[watch_idx].id}
    /\ persisted' = FALSE
    /\ emitted' = << >>
    /\ attempts' = << >>
    /\ sent' = << >>
    /\ mpc' = AfterCheckFailure
    /\ UNCHANGED << watched_sets, server_settings, now, running, watches, watch_idx, watch_result,
                    cycles >>
    /\ UNCHANGED << checkerVars, storeVars, auxVars >>

\* await self.db.update_watch_status(...), then the comparison with the
\* stored state up to the await inside the send method chosen
Persist ==
    /\ mpc = "persist"
    /\ now' = now + 1
    /\ watched_sets' = update_watch_status(watched_sets, watch.id, watch_result.status,
                                           watch_result.button_detected, now')
    /\ persisted' = TRUE
    /\ LET kind == NotificationKind(watch.last_status, watch_result.status,
                                    watch.last_button_detected, watch_result.button_detected)
       IN  IF kind = "none"
           THEN mpc' = "checked" /\ UNCHANGED emitted
           ELSE mpc' = "notify" /\ emitted' = Append(emitted, kind)
    /\ UNCHANGED << server_settings, running, watches, watch_idx, watch, watch_result,
                    visited, failed, cycles, attempts, sent >>
    /\ UNCHANGED << checkerVars, storeVars, auxVars >>

\* _send_notification or _send_button_notification runs to its end
Notify ==
    /\ mpc = "notify"
    /\ \E env \in Envs :
         LET built == emitted[Len(emitted)] = "status"
                        \/ ButtonMessageBuilt(watch.last_button_detected,
                                              watch_result.button_detected)
             d == IF built THEN Deliver(watch.guild_id, server_settings, env)
                  ELSE Delivery(<< >>, << >>)
         IN  /\ attempts' = d.attempts
             /\ sent' = d.sent
    /\ mpc' = "checked"
    /\ UNCHANGED << watched_sets, server_settings, now, running, watches, watch_idx, watch,
                    watch_result, visited, failed, cycles, persisted, emitted >>
    /\ UNCHANGED << checkerVars, storeVars, auxVars >>

\* end of the for body: next watch, or the end of _check_all_watches
EndCheck ==
    /\ mpc = "checked"
    /\ IF watch_idx < Len(watches)
       THEN watch_idx' = watch_idx + 1 /\ mpc' = "check"
       ELSE watch_idx' = watch_idx /\ mpc' = "sleep"
    /\ UNCHANGED << watched_sets, server_settings, now, running, watches, watch,
                    watch_result, visited, failed, cycles, persisted, emitted, attempts, sent >>
    /\ UNCHANGED << checkerVars, storeVars, auxVars >>

\* await asyncio.sleep(self.interval_seconds) returns
Sleep ==
    /\ mpc = "sleep"
    /\ mpc' = "loop"
    /\ UNCHANGED << watched_sets, server_settings, now, running, watches, watch_idx, watch,
                    watch_result, visited, failed, cycles, persisted, emitted, attempts, sent >>
    /\ UNCHANGED << checkerVars, storeVars, auxVars >>

NoOp == [name |-> "none", user_id |-> 0, guild_id |-> 0, set_code |-> "",
         returned |-> FALSE, existed |-> FALSE]

\* no store command has been called; two records are stored
StoreIdle ==
    /\ next_id = 3
    /\ op = NoOp

Callers == {"command", "monitor"}

\* no caller is inside check_stock
CallersIdle ==
    /\ cpc = [c \in Callers |-> "idle"]
    /\ read_age = [c \in Callers |-> RATE_LIMIT_DELAY_SECONDS]
    /\ since_stamp = RATE_LIMIT_DELAY_SECONDS
    /\ stamp_gap = RATE_LIMIT_DELAY_SECONDS
    /\ stampers = << "none", "none" >>

NoDoc == Doc("absent", {}, FALSE, << >>)

NoStatus == Status(FALSE, "", Msg(""), None)

\* no document is being classified
ClassifierIdle ==
    /\ document = NoDoc
    /\ classified = << >>
    /\ other = NoDoc
    /\ other_result = NoStatus

NoNotification ==
    [kind |-> "none", guild_id |-> 0, channel_id |-> 0, first_postable |-> 8,
     old_button |-> None, new_button |-> None,
     env |-> [user |-> "cached", channel |-> "sent", dm |-> "sent", guild |-> "sent"]]

NotDelivered == [called |-> FALSE, attempts |-> << >>, sent |-> << >>]

\* no send method is being called
DeliveryIdle ==
    /\ notification = NoNotification
    /\ delivered = NotDelivered

NoCall == [name |-> "none", fault |-> "none", raised |-> FALSE, returned |-> "None",
           changed |-> FALSE]

\* the repository after main() has initialized it; no call yet
RepositoryIdle ==
    /\ initialized = TRUE
    /\ last_call = NoCall

\* start() has not been called: no loop task
LifecycleIdle ==
    /\ loop_tasks = << >>
    /\ task_handle = 0
    /\ elapsed = 0

AuxIdle ==
    /\ CallersIdle
    /\ ClassifierIdle
    /\ DeliveryIdle
    /\ RepositoryIdle
    /\ LifecycleIdle

\* the monitor as it is before start()
MonitorIdle ==
    /\ MonitorInit
    /\ server_settings = [g \in {1} |-> 0]

\* the checker as it is after construction
CheckerIdle ==
    /\ CheckerInit
    /\ cookies
    /\ time_since_http = 0

NextChecker ==
    \/ CheckStock
    \/ RateLimit
    \/ Get
    \/ Recreate
    \/ Retry
    \/ Parse
    \/ Search

InitChecker == CheckerInit /\ MonitorIdle /\ StoreIdle /\ AuxIdle

SpecChecker == InitChecker /\ [][NextChecker]_vars

NextMonitor ==
    \/ Start
    \/ Stop
    \/ CycleBegin
    \/ LoadWatches
    \/ CheckWatch
    \/ CheckWatchFails
    \/ Persist
    \/ Notify
    \/ EndCheck
    \/ Sleep

InitMonitor == MonitorInit /\ CheckerIdle /\ StoreIdle /\ AuxIdle

SpecMonitor == InitMonitor /\ [][NextMonitor]_vars

(***************************************************************************)
(* Properties of the poll scheduler.                                       *)
(***************************************************************************)
\* the check of the current watch ran to the end of _check_watch
CheckCompleted == mpc = "checked" /\ watch.id \notin failed

StoredRow == watched_sets[watch.id]

\* the stored record holds what the current check obtained
RecordHoldsResult ==
    watch.id \in DOMAIN watched_sets =>
        /\ StoredRow.last_status = watch_result.status
        /\ StoredRow.last_button_detected = watch_result.button_detected
        /\ StoredRow.last_checked = now

Count(seq, kind) == Cardinality({ k \in 1 .. Len(seq) : seq[k] = kind })

\* C5: when the record has a stored status and the new status differs from
\* it, the check emits exactly one status-change notification and no
\* button-change notification, whatever the old and new buttons are.
C5_StatusChangeNotifiesOnce ==
    (CheckCompleted /\ watch.last_status # None
                    /\ watch.last_status # watch_result.status)
        => /\ Count(emitted, "status") = 1
           /\ Count(emitted, "button") = 0
           /\ Len(sent) <= 1

\* the status changed and a button appeared in the same check
C5_Witness ==
    /\ CheckCompleted
    /\ watch.last_status = "out_of_stock"
    /\ watch_result.status = "in_stock"
    /\ watch.last_button_detected = None
    /\ watch_result.button_detected = "Add to Bag"
    /\ emitted = << "status" >>
    /\ sent = << "dm" >>

\* C6: on the first check of a record (last_status unset) the result is
\* stored and no notification of either kind is emitted, whatever status
\* and button were obtained.
C6_FirstCheckSilent ==
    /\ (mpc \in {"notify", "checked"} /\ watch.id \notin failed /\ watch.last_status = None)
          => mpc = "checked" /\ emitted = << >> /\ attempts = << >> /\ sent = << >>
    /\ (CheckCompleted /\ watch.last_status = None)
          => persisted /\ RecordHoldsResult

\* a first check that found the set in stock with a purchase button
C6_Witness ==
    /\ CheckCompleted
    /\ watch.last_status = None
    /\ watch_result.status = "in_stock"
    /\ watch_result.button_detected = "Add to Bag"
    /\ StoredRow.last_status = "in_stock"
    /\ emitted = << >>

\* C7: with the status stored and unchanged, a button that appears (none to
\* some) or changes (some to a different one) gives exactly one
\* button-change notification and no status-change notification.
C7_ButtonChangeNotifiesOnce ==
    (CheckCompleted /\ watch.last_status # None
                    /\ watch.last_status = watch_result.status
                    /\ watch_result.button_detected # None
                    /\ watch_result.button_detected # watch.last_button_detected)
        => /\ Count(emitted, "button") = 1
           /\ Count(emitted, "status") = 0
           /\ Len(sent) <= 1

\* a button replaced by a different one while the status stayed pre_order
C7_Witness ==
    /\ CheckCompleted
    /\ watch.last_status = "pre_order"
    /\ watch_result.status = "pre_order"
    /\ watch.last_button_detected = "Pre-order Now"
    /\ watch_result.button_detected = "Add to Bag"
    /\ emitted = << "button" >>
    /\ sent = << "channel" >>

\* C8: with the status unchanged, a button that disappears (some to none)
\* and a button that stays the same emit no notification.
C8_NoNotificationForVanishedButton ==
    (CheckCompleted /\ watch.last_status # None
                    /\ watch.last_status = watch_result.status
                    /\ \/ watch_result.button_detected = watch.last_button_detected
                       \/ (watch.last_button_detected # None
                             /\ watch_result.button_detected = None))
        => emitted = << >> /\ sent = << >>

\* C9: every check that got a result from the stock checker stores the new
\* (status, button, checked time) in its record before any notification,
\* whether none is due, one is delivered, or its delivery fails.
C9_AlwaysPersisted ==
    /\ (mpc \in {"notify", "checked"} /\ watch.id \notin failed)
          => persisted /\ RecordHoldsResult
    /\ emitted # << >> => persisted

\* a status change whose notification could not be delivered anywhere
C9_Witness ==
    /\ CheckCompleted
    /\ emitted = << "status" >>
    /\ attempts = << "channel", "dm", "guild" >>
    /\ sent = << >>
    /\ watch.last_status # watch_result.status
    /\ StoredRow.last_status = watch_result.status
    /\ StoredRow.last_checked = now

\* the ids of the list loaded for the cycle, in order
LoadedIds == [k \in 1 .. Len(watches) |-> watches[k].id]

\* C10: a failure raised while one record is checked is caught and does not
\* end the cycle: as long as the monitor is not stopped, every record of
\* the list loaded for the cycle is checked.
C10_FailureDoesNotAbortCycle ==
    (mpc = "sleep" /\ running)
        => /\ visited = LoadedIds
           /\ \A id \in DOMAIN watched_sets :
                (\E k \in 1 .. Len(watches) : watches[k].id = id) /\ id \notin failed
                    => watched_sets[id].last_status # None

\* the check of the first record raised, the second was still checked
C10_Witness ==
    /\ mpc = "sleep"
    /\ running
    /\ Len(watches) = 2
    /\ visited[1] \in failed
    /\ visited[2] \notin failed
    /\ watched_sets[visited[2]].last_checked = now
    /\ watched_sets[visited[1]].last_checked < now

\* a check of one record is in flight: the task awaits the update or a send
CheckInFlight == mpc \in {"persist", "notify"}

\* C11: stopping is cooperative: whatever happens while a check is in flight,
\* a stop() included, the check goes on to persist its result and to send
\* the notification that is due; once running is false no further check and
\* no further cycle is started.
C11_StopIsCooperative ==
    [][ /\ CheckInFlight => mpc' \in {"notify", "checked"}
        /\ (mpc = "persist" /\ mpc' # "persist") => persisted'
        /\ ~ running => visited' = visited /\ cycles' = cycles ]_vars

(***************************************************************************)
(* The store commands add_watch and remove_watch.  guild_id 0 is SQL NULL  *)
(* (Python None, a command used outside a guild).                          *)
(***************************************************************************)
MaxInserts == 3

Users == {1, 2}

Guilds == {0, 1}

\* "column = ?" on the nullable guild_id: a comparison with NULL is never true
SqlEquals(a, b) == a # 0 /\ b # 0 /\ a = b

\* UNIQUE(user_id, guild_id, set_code): NULLs are distinct from each other
UniqueConflict(table, user_id, guild_id, code) ==
    \E id \in DOMAIN table :
        /\ table[id].user_id = user_id
        /\ SqlEquals(table[id].guild_id, guild_id)
        /\ table[id].set_code = code

\* WHERE user_id = ? AND guild_id = ? AND set_code = ?
WhereMatches(row, user_id, guild_id, code) ==
    /\ row.user_id = user_id
    /\ SqlEquals(row.guild_id, guild_id)
    /\ row.set_code = code

\* INSERT OR IGNORE INTO watched_sets (...) VALUES (?, ?, ?, NULL, NULL)
InsertOrIgnore(table, id, user_id, guild_id, code) ==
    IF UniqueConflict(table, user_id, guild_id, code) THEN table
    ELSE [k \in DOMAIN table \cup {id} |->
             IF k = id THEN Row(id, user_id, guild_id, code) ELSE table[k]]

\* add_watch: the insert, then SELECT COUNT(*) ... ; return result[0] > 0
add_watch(table, id, user_id, code, guild_id) ==
    LET inserted == InsertOrIgnore(table, id, user_id, guild_id, code)
        count == Cardinality({ k \in DOMAIN inserted :
                                 WhereMatches(inserted[k], user_id, guild_id, code) })
    IN  [table |-> inserted, returned |-> count > 0]

\* remove_watch: DELETE ... ; return cursor.rowcount > 0
remove_watch(table, user_id, code, guild_id) ==
    LET deleted == { k \in DOMAIN table : WhereMatches(table[k], user_id, guild_id, code) }
    IN  [table |-> [k \in DOMAIN table \ deleted |-> table[k]],
         returned |-> Cardinality(deleted) > 0]

\* the records stored for a (user, guild, set code), an absent guild included
RecordsOf(table, user_id, guild_id, code) ==
    { k \in DOMAIN table : /\ table[k].user_id = user_id
                           /\ table[k].guild_id = guild_id
                           /\ table[k].set_code = code }

\* an empty store; checker and monitor are not running
StoreInit ==
    /\ watched_sets = [id \in {} |-> NoWatch]
    /\ server_settings = [g \in {1} |-> 0]
    /\ now = 1
    /\ running = FALSE
    /\ mpc = "unstarted"
    /\ watches = << >>
    /\ watch_idx = 0
    /\ watch = NoWatch
    /\ watch_result = NoResult
    /\ visited = << >>
    /\ failed = {}
    /\ cycles = 0
    /\ persisted = FALSE
    /\ emitted = << >>
    /\ attempts = << >>
    /\ sent = << >>
    /\ next_id = 1
    /\ op = NoOp

\* the watch command after its check_stock succeeded: bot.db.add_watch(...)
AddWatch ==
    /\ \E user_id \in Users, guild_id \in Guilds, code \in SetCodes :
         LET call == add_watch(watched_sets, next_id, user_id, code, guild_id)
         IN  /\ (next_id <= MaxInserts \/ call.table = watched_sets)
             /\ watched_sets' = call.table
             /\ next_id' = IF call.table = watched_sets THEN next_id ELSE next_id + 1
             /\ op' = [name |-> "add_watch", user_id |-> user_id, guild_id |-> guild_id,
                       set_code |-> code, returned |-> call.returned,
                       existed |-> RecordsOf(watched_sets, user_id, guild_id, code) # {}]
    /\ UNCHANGED << server_settings, now, running, mpc, watches, watch_idx, watch, watch_result,
                    visited, failed, cycles, persisted, emitted, attempts, sent >>
    /\ UNCHANGED << checkerVars, auxVars >>

\* the unwatch command: bot.db.remove_watch(...)
RemoveWatch ==
    /\ \E user_id \in Users, guild_id \in Guilds, code \in SetCodes :
         LET call == remove_watch(watched_sets, user_id, code, guild_id)
         IN  /\ watched_sets' = call.table
             /\ op' = [name |-> "remove_watch", user_id |-> user_id, guild_id |-> guild_id,
                       set_code |-> code, returned |-> call.returned,
                       existed |-> RecordsOf(watched_sets, user_id, guild_id, code) # {}]
    /\ UNCHANGED << server_settings, now, running, mpc, watches, watch_idx, watch, watch_result,
                    visited, failed, cycles, persisted, emitted, attempts, sent >>
    /\ UNCHANGED << checkerVars, next_id, auxVars >>

NextStore ==
    \/ AddWatch
    \/ RemoveWatch

InitStore == StoreInit /\ CheckerIdle /\ AuxIdle

SpecStore == InitStore /\ [][NextStore]_vars

(***************************************************************************)
(* Properties of the watch store.                                          *)
(***************************************************************************)
\* C12: after any sequence of add_watch and remove_watch calls the store
\* holds at most one record per (user, guild, set code), also when the
\* guild is absent.
C12_OneRecordPerTuple ==
    \A user_id \in Users, guild_id \in Guilds, code \in SetCodes :
        Cardinality(RecordsOf(watched_sets, user_id, guild_id, code)) <= 1

\* C13: after add_watch exactly one record of its (user, guild, set code)
\* is stored; it returns True when none was stored before (first add) and
\* False when one was (second add).
C13_SecondAddReportsExists ==
    op.name = "add_watch" =>
        /\ Cardinality(RecordsOf(watched_sets, op.user_id, op.guild_id, op.set_code)) = 1
        /\ op.returned = ~ op.existed

\* C14: remove_watch of a (user, guild, set code) that has a record returns
\* True and leaves no record of it, in the table and in get_all_watches,
\* with a guild and without one.
C14_RemoveDeletes ==
    (op.name = "remove_watch" /\ op.existed) =>
        /\ op.returned
        /\ RecordsOf(watched_sets, op.user_id, op.guild_id, op.set_code) = {}
        /\ LET all == get_all_watches(watched_sets)
           IN  \A k \in 1 .. Len(all) :
                   ~ (/\ all[k].user_id = op.user_id
                      /\ all[k].guild_id = op.guild_id
                      /\ all[k].set_code = op.set_code)

\* C22: within a poll cycle the records are checked one after another in
\* the order loaded: the check of a record begins only at the head of the
\* for body, after the check of the record before it has ended (persisted
\* and notified, or failed), never while a check is at its persist or
\* notify step.
C22_ChecksAreSequential ==
    [][Len(visited') = Len(visited) + 1 =>
          /\ mpc = "check"
          /\ ~ CheckInFlight
          /\ visited = << >> \/ persisted \/ visited[Len(visited)] \in failed
          /\ visited'[Len(visited')] = watches[Len(visited')].id]_vars

\* the check of the second record is in progress; the first record's check
\* was persisted and its notification delivered before it
C22_Witness ==
    /\ Len(visited) = 2
    /\ mpc = "notify"
    /\ visited[1] \notin failed
    /\ watched_sets[visited[1]].last_checked > 0

(***************************************************************************)
(* The shared checker under its two callers.  The chat commands and the    *)
(* monitor task are coroutines of one event loop; check_stock is a plain   *)
(* function (time.sleep, blocking requests), so the coroutine that called  *)
(* it keeps the loop's thread until it returns.  Another coroutine runs    *)
(* only while every caller inside check_stock is at a position where it    *)
(* awaits.                                                                 *)
(***************************************************************************)
\* a rate limiter that sleeps with "await asyncio.sleep(...)"
YieldsInSleep == {"sleep"}

\* the positions inside check_stock at which the caller awaits: none
YieldPoints == {}

CanRun(c) == \A o \in Callers \ {c} : cpc[o] = "idle" \/ cpc[o] \in YieldPoints

CallersInit ==
    /\ cpc = [c \in Callers |-> "idle"]
    /\ read_age = [c \in Callers |-> RATE_LIMIT_DELAY_SECONDS]
    /\ since_stamp = RATE_LIMIT_DELAY_SECONDS
    /\ stamp_gap = RATE_LIMIT_DELAY_SECONDS
    /\ stampers = << "none", "none" >>

\* result = bot.lego_checker.check_stock(set_code) in a command, or
\* self.lego_checker.check_stock(set_code) in _check_watch, some time later
Enter(c) ==
    /\ cpc[c] = "idle"
    /\ CanRun(c)
    /\ \E idle \in 0 .. MaxIdle : since_stamp' = Age(since_stamp + idle)
    /\ cpc' = [cpc EXCEPT ![c] = "rate_limit"]
    /\ UNCHANGED << read_age, stamp_gap, stampers >>
    /\ UNCHANGED << checkerVars, monitorVars, storeVars, classifierVars, deliveryVars,
                    repositoryVars, lifecycleVars >>

\* time_since_last = current_time - self.last_request_time
ReadStamp(c) ==
    /\ cpc[c] = "rate_limit"
    /\ CanRun(c)
    /\ read_age' = [read_age EXCEPT ![c] = since_stamp]
    /\ cpc' = [cpc EXCEPT ![c] = "sleep"]
    /\ UNCHANGED << since_stamp, stamp_gap, stampers >>
    /\ UNCHANGED << checkerVars, monitorVars, storeVars, classifierVars, deliveryVars,
                    repositoryVars, lifecycleVars >>

\* time.sleep(rate_limit_delay - time_since_last) if that is positive, then
\* self.last_request_time = time.time()
SleepAndStamp(c) ==
    /\ cpc[c] = "sleep"
    /\ CanRun(c)
    /\ stamp_gap' = Age(since_stamp + SleepTime(read_age[c], RATE_LIMIT_DELAY_SECONDS))
    /\ since_stamp' = 0
    /\ stampers' = << stampers[2], c >>
    /\ cpc' = [cpc EXCEPT ![c] = "request"]
    /\ UNCHANGED read_age
    /\ UNCHANGED << checkerVars, monitorVars, storeVars, classifierVars, deliveryVars,
                    repositoryVars, lifecycleVars >>

\* the requests of the fetch (self.session.get and what follows it)
CallerRequest(c) ==
    /\ cpc[c] = "request"
    /\ CanRun(c)
    /\ \E d \in Durations : since_stamp' = Age(since_stamp + d)
    /\ cpc' = [cpc EXCEPT ![c] = "fetched"]
    /\ UNCHANGED << read_age, stamp_gap, stampers >>
    /\ UNCHANGED << checkerVars, monitorVars, storeVars, classifierVars, deliveryVars,
                    repositoryVars, lifecycleVars >>

\* check_stock goes on with the next URL, or returns to its caller
NextFetchOrReturn(c) ==
    /\ cpc[c] = "fetched"
    /\ CanRun(c)
    /\ \E more \in BOOLEAN :
         cpc' = [cpc EXCEPT ![c] = IF more THEN "rate_limit" ELSE "idle"]
    /\ UNCHANGED << read_age, since_stamp, stamp_gap, stampers >>
    /\ UNCHANGED << checkerVars, monitorVars, storeVars, classifierVars, deliveryVars,
                    repositoryVars, lifecycleVars >>

NextCallers ==
    \E c \in Callers :
        \/ Enter(c)
        \/ ReadStamp(c)
        \/ SleepAndStamp(c)
        \/ CallerRequest(c)
        \/ NextFetchOrReturn(c)

InitCallers ==
    /\ CallersInit
    /\ CheckerIdle
    /\ MonitorIdle
    /\ StoreIdle
    /\ ClassifierIdle
    /\ DeliveryIdle
    /\ RepositoryIdle
    /\ LifecycleIdle

SpecCallers == InitCallers /\ [][NextCallers]_vars

\* C21: the accesses of the command and of the poll to last_request_time
\* are serialized: at most one of them is inside check_stock, the timestamp
\* a caller has read is still the current one when it sleeps and writes,
\* and two consecutive writes (request starts) are at least the delay apart.
C21_SerializedRateLimit ==
    /\ \A c1 \in Callers : \A c2 \in Callers \ {c1} : cpc[c1] = "idle" \/ cpc[c2] = "idle"
    /\ \A c \in Callers : cpc[c] = "sleep" => read_age[c] = since_stamp
    /\ stamp_gap >= RATE_LIMIT_DELAY_SECONDS

\* the command's check follows the monitor's within the delay: it read the
\* monitor's timestamp, slept and wrote its own
C21_Witness ==
    /\ stampers = << "monitor", "command" >>
    /\ cpc["command"] = "request"
    /\ cpc["monitor"] = "idle"
    /\ read_age["command"] < RATE_LIMIT_DELAY_SECONDS
    /\ since_stamp = 0

(***************************************************************************)
(* The classifier as a function of the parsed document.  A document is     *)
(* drawn from the tag contents, the sets of at most MaxFragments text      *)
(* fragments and the button layouts; it is classified up to MaxCalls       *)
(* times, and another document may be classified in between.               *)
(***************************************************************************)
MaxFragments == 2
MaxCalls == 2

Layout(sticky, buttons, outside) == [sticky |-> sticky, buttons |-> buttons, outside |-> outside]

Layouts ==
    { Layout(FALSE, << >>, << >>),
      Layout(FALSE, << >>, << Button("Add to Bag", "", "add-to-cart") >>),
      Layout(TRUE, << >>, << >>),
      Layout(TRUE, << Button("Add to Bag", "", "add-to-cart") >>, << >>),
      Layout(TRUE, << Button("", "Close", ""), Button("Pre-order Now", "", "") >>, << >>),
      Layout(TRUE, << Button("Add to Wishlist", "", ""), Button("", "Add to Bag", "") >>, << >>),
      Layout(TRUE, << Button("Notify me", "", "") >>, << >>),
      Layout(TRUE, << Button("Add to Bag", "Close", "") >>, << >>),
      Layout(TRUE, << Button("", "Add to Bag", "add-to-cart") >>, << >>) }

TextSets == { t \in SUBSET Fragments : Cardinality(t) <= MaxFragments }

Documents ==
    { DocWith(m, t, l.sticky, l.buttons, l.outside) :
        m \in MetaContents \cup {"absent"}, t \in TextSets, l \in Layouts }

\* the documents with the tag and the fragments of doc under every layout
Variants(doc) ==
    { DocWith(doc.meta, doc.text, l.sticky, l.buttons, l.outside) : l \in Layouts }

\* a classifier that keeps the button it saw last
ClassifyRemembering(doc) ==
    IF other = NoDoc THEN _check_stock_status(doc)
    ELSE [_check_stock_status(doc) EXCEPT !.button_detected = other_result.button_detected]

\* stock_status = self._check_stock_status(soup)
classify(doc) == _check_stock_status(doc)

ClassifierInit ==
    /\ document \in Documents
    /\ classified = << >>
    /\ other = NoDoc
    /\ other_result = NoStatus

Classify ==
    /\ Len(classified) < MaxCalls
    /\ classified' = Append(classified, classify(document))
    /\ UNCHANGED << document, other, other_result >>
    /\ UNCHANGED << checkerVars, monitorVars, storeVars, callerVars, deliveryVars,
                    repositoryVars, lifecycleVars >>

\* the page of another fetch is classified between two calls
ClassifyOther ==
    /\ Len(classified) >= 1
    /\ other = NoDoc
    /\ \E v \in (Variants(document) \cup Pages) \ {document, NoDoc} :
         /\ other' = v
         /\ other_result' = classify(v)
    /\ UNCHANGED << document, classified >>
    /\ UNCHANGED << checkerVars, monitorVars, storeVars, callerVars, deliveryVars,
                    repositoryVars, lifecycleVars >>

NextClassifier == Classify \/ ClassifyOther

InitClassifier ==
    /\ ClassifierInit
    /\ CheckerIdle
    /\ MonitorIdle
    /\ StoreIdle
    /\ CallersIdle
    /\ DeliveryIdle
    /\ RepositoryIdle
    /\ LifecycleIdle

SpecClassifier == InitClassifier /\ [][NextClassifier]_vars

\* soup.get_text(): the text fragments and the texts of all buttons
PageText(doc) ==
    (doc.text \cup { doc.buttons[k].text : k \in 1 .. Len(doc.buttons) }
              \cup { doc.outside[k].text : k \in 1 .. Len(doc.outside) }) \ {""}

\* C23: a tag whose content matches a tier-1 token decides the status,
\* whatever the page text says: InStock gives in_stock and available,
\* OutOfStock out_of_stock, PreOrder pre_order, BackOrder out_of_stock with
\* the message Backorder.
C23_TagTierFirst ==
    \A k \in 1 .. Len(classified) :
        /\ document.meta = "InStock" =>
               classified[k].status = "in_stock" /\ classified[k].available
        /\ document.meta = "OutOfStock" =>
               classified[k].status = "out_of_stock" /\ ~ classified[k].available
        /\ document.meta = "PreOrder" =>
               classified[k].status = "pre_order" /\ ~ classified[k].available
        /\ document.meta = "BackOrder" =>
               /\ classified[k].status = "out_of_stock"
               /\ ~ classified[k].available
               /\ classified[k].message = Msg("Backorder")

\* the tag says InStock, the page text says out of stock and pre-order
C23_Witness ==
    /\ Len(classified) >= 1
    /\ document.meta = "InStock"
    /\ InPageText(document, "temporarily out of stock")
    /\ InPageText(document, "pre-order")
    /\ classified[1].status = "in_stock"
    /\ classified[1].available

\* C24 as stated: every document without the tag whose text contains
\* "Temporarily out of stock" is classified out_of_stock.
C24_TemporarilyOutOfStock ==
    \A k \in 1 .. Len(classified) :
        (document.meta = "absent" /\ InPageText(document, "temporarily out of stock"))
            => classified[k].status = "out_of_stock"

\* C24: a document without the tag whose text contains "Temporarily out of
\* stock" and none of the keywords tested before the out-of-stock group
\* (pre-order, preorder, coming soon, available now) is classified
\* out_of_stock, not available, whatever later keywords it holds.
C24_TemporarilyOutOfStockUnlessEarlier ==
    \A k \in 1 .. Len(classified) :
        (/\ document.meta = "absent"
         /\ InPageText(document, "temporarily out of stock")
         /\ ~ \E kw \in {"pre-order", "preorder", "coming soon", "available now"} :
                InPageText(document, kw))
            => /\ classified[k].status = "out_of_stock"
               /\ ~ classified[k].available
               /\ classified[k].message = Msg("Out of Stock")

\* no tag, "Temporarily out of stock" next to the later keyword "add to bag"
C24_Witness ==
    /\ Len(classified) >= 1
    /\ document.meta = "absent"
    /\ InPageText(document, "temporarily out of stock")
    /\ InPageText(document, "add to bag")
    /\ ~ \E kw \in {"pre-order", "preorder", "coming soon", "available now"} :
           InPageText(document, kw)
    /\ classified[1].status = "out_of_stock"

\* the first keyword group of the page-text tier that the text holds
FirstGroupPresent(doc) ==
    IF InPageText(doc, "pre-order") \/ InPageText(doc, "preorder") THEN "pre-order"
    ELSE IF InPageText(doc, "coming soon") THEN "coming soon"
    ELSE IF InPageText(doc, "available now") THEN "available now"
    ELSE IF \E kw \in {"out of stock", "sold out", "unavailable", "temporarily out of stock"} :
                InPageText(doc, kw) THEN "out-of-stock"
    ELSE IF \E kw \in {"in stock", "add to cart", "add to bag"} : InPageText(doc, kw)
         THEN "in-stock"
    ELSE "none"

\* C25: when the tag tier does not match, the first keyword group present
\* in the order pre-order, coming soon, available now, out-of-stock set,
\* in-stock set decides: pre_order, pre_order, in_stock, out_of_stock,
\* in_stock; with none present the result is unknown and not available.
C25_BodyTierOrder ==
    \A k \in 1 .. Len(classified) :
        document.meta \in {"absent", "Discontinued"} =>
            LET g == FirstGroupPresent(document)
            IN  /\ classified[k].status =
                       (CASE g = "pre-order" -> "pre_order"
                          [] g = "coming soon" -> "pre_order"
                          [] g = "available now" -> "in_stock"
                          [] g = "out-of-stock" -> "out_of_stock"
                          [] g = "in-stock" -> "in_stock"
                          [] OTHER -> "unknown")
                /\ classified[k].available = (g \in {"available now", "in-stock"})

\* a page that holds keywords of three groups, the pre-order one first in
\* the order; and the tag is present with a content that matches no token
C25_Witness ==
    /\ Len(classified) >= 1
    /\ document.meta = "Discontinued"
    /\ InPageText(document, "pre-order")
    /\ InPageText(document, "sold out")
    /\ InPageText(document, "add to bag")
    /\ classified[1].status = "pre_order"

C27_NoContainerNoButton ==
    \A k \in 1 .. Len(classified) :
        ~ document.sticky => classified[k].button_detected = None

\* no container, an "Add to Bag" button outside it, status in_stock
C27_Witness ==
    /\ Len(classified) >= 1
    /\ ~ document.sticky
    /\ document.outside # << >>
    /\ IsPurchaseButton(document.outside[1])
    /\ classified[1].status = "in_stock"
    /\ classified[1].button_detected = None

\* C28: whichever tier decides, the button_detected of the result is what
\* the button detection returns for the document.
C28_ButtonAttachedToEveryTier ==
    \A k \in 1 .. Len(classified) :
        classified[k].button_detected = _detect_button(document)

\* the default tier decided and a button was detected
C28_Witness ==
    /\ Len(classified) >= 1
    /\ classified[1].status = "unknown"
    /\ classified[1].button_detected = "Add to Bag"

Buttons == {None, "Add to Bag", "Pre-order Now"}

Notifications ==
    [kind : {"status", "button"}, guild_id : {0, 1}, channel_id : {0, 7},
     first_postable : {7, 8}, old_button : Buttons, new_button : Buttons, env : Envs]

\* the table of notification channels, guild 1 having channel_id (0: none)
SettingsOf(n) == [g \in {1} |-> n.channel_id]

_send_notification(n) == Deliver(n.guild_id, SettingsOf(n), n.env)

_send_button_notification(n) ==
    IF n.env.user \in {"notfound", "error"} THEN Delivery(<< >>, << >>)
    ELSE IF ~ ButtonMessageBuilt(n.old_button, n.new_button) THEN Delivery(<< >>, << >>)
    ELSE Deliver(n.guild_id, SettingsOf(n), n.env)

DeliveryInit ==
    /\ notification \in Notifications
    /\ delivered = NotDelivered

SendStatusNotification ==
    /\ ~ delivered.called
    /\ notification.kind = "status"
    /\ delivered' = [called |-> TRUE,
                     attempts |-> _send_notification(notification).attempts,
                     sent |-> _send_notification(notification).sent]
    /\ UNCHANGED notification
    /\ UNCHANGED << checkerVars, monitorVars, storeVars, callerVars, classifierVars,
                    repositoryVars, lifecycleVars >>

SendButtonNotification ==
    /\ ~ delivered.called
    /\ notification.kind = "button"
    /\ delivered' = [called |-> TRUE,
                     attempts |-> _send_button_notification(notification).attempts,
                     sent |-> _send_button_notification(notification).sent]
    /\ UNCHANGED notification
    /\ UNCHANGED << checkerVars, monitorVars, storeVars, callerVars, classifierVars,
                    repositoryVars, lifecycleVars >>

NextDelivery == SendStatusNotification \/ SendButtonNotification

InitDelivery ==
    /\ DeliveryInit
    /\ CheckerIdle
    /\ MonitorIdle
    /\ StoreIdle
    /\ CallersIdle
    /\ ClassifierIdle
    /\ RepositoryIdle
    /\ LifecycleIdle

SpecDelivery == InitDelivery /\ [][NextDelivery]_vars

\* the method resolved the subscriber and built a message
MessageBuilt ==
    /\ delivered.called
    /\ notification.env.user \in {"cached", "fetched"}
    /\ notification.kind = "button" =>
           ButtonMessageBuilt(notification.old_button, notification.new_button)

Tried(dest) == \E k \in 1 .. Len(delivered.attempts) : delivered.attempts[k] = dest

\* C30: for both kinds of notification the destinations are tried in the
\* order override channel, direct message, postable channel of the guild:
\* the override channel first when one is set and accessible, the direct
\* message whenever the channel was unset or did not take the message, the
\* guild's postable channel whenever the direct message failed.
C30_DeliveryOrder ==
    MessageBuilt =>
        /\ \A k \in 1 .. Len(delivered.attempts) :
              delivered.attempts[k] = "channel" => k = 1
        /\ \A k \in 1 .. Len(delivered.attempts) :
              delivered.attempts[k] = "dm" =>
                  \A j \in k + 1 .. Len(delivered.attempts) : delivered.attempts[j] = "guild"
        /\ \A k \in 1 .. Len(delivered.attempts) :
              delivered.attempts[k] = "guild" => k = Len(delivered.attempts) /\ Tried("dm")
        /\ (/\ notification.guild_id # 0
            /\ notification.channel_id # 0
            /\ notification.env.channel # "inaccessible") => Tried("channel")
        /\ delivered.sent # << "channel" >> => Tried("dm")
        /\ (/\ Tried("dm")
            /\ notification.env.dm # "sent"
            /\ notification.guild_id # 0
            /\ notification.env.guild \in {"sent", "send_fails"}) => Tried("guild")

\* what an attempt is addressed to: the channel sent to, or the subscriber
Destination(n, attempt) ==
    CASE attempt = "channel" -> [kind |-> "channel", id |-> n.channel_id]
      [] attempt = "guild" -> [kind |-> "channel", id |-> n.first_postable]
      [] OTHER -> [kind |-> "user", id |-> 0]

\* C31: for one notification event at most one message is sent and no
\* destination (the subscriber, a channel) is sent to twice.
C31_NoRetry ==
    delivered.called =>
        /\ Len(delivered.sent) <= 1
        /\ \A j \in 1 .. Len(delivered.attempts) : \A k \in 1 .. Len(delivered.attempts) :
              j # k => Destination(notification, delivered.attempts[j])
                           # Destination(notification, delivered.attempts[k])

(***************************************************************************)
(* The watch repository under storage faults.  Every operation awaits      *)
(* initialize() before its try block.  fault says where sqlite raises:     *)
(* "initialize" in the schema initialisation (possible only while          *)
(* _initialized is False), "execute" in the connect, the statement or the  *)
(* commit of the operation, "count" in the counting SELECT that add_watch *)
(* runs after its commit, "none" nowhere.                                  *)
(***************************************************************************)
Operations ==
    {"add_watch", "remove_watch", "get_user_watches", "get_all_watches",
     "update_watch_status", "get_notification_channel", "set_notification_channel",
     "clear_notification_channel"}

\* what the except clause of the operation returns
FailureValue(name) ==
    CASE name \in {"add_watch", "remove_watch"} -> "False"
      [] name \in {"get_user_watches", "get_all_watches"} -> "[]"
      [] OTHER -> "None"

FaultsOf(name) ==
    {"none", "execute"}
        \cup (IF initialized THEN {} ELSE {"initialize"})
        \cup (IF name = "add_watch" THEN {"count"} ELSE {})

\* the rows of get_user_watches: WHERE user_id = ? AND guild_id = ?
UserWatches(table, user_id, guild_id) ==
    { k \in DOMAIN table : table[k].user_id = user_id /\ SqlEquals(table[k].guild_id, guild_id) }

\* the outcome of an operation that no fault interrupts
Outcome(name, user_id, guild_id, code, watch_id) ==
    CASE name = "add_watch" ->
             [table |-> add_watch(watched_sets, next_id, user_id, code, guild_id).table,
              settings |-> server_settings,
              returned |-> IF add_watch(watched_sets, next_id, user_id, code, guild_id).returned
                           THEN "True" ELSE "False"]
      [] name = "remove_watch" ->
             [table |-> remove_watch(watched_sets, user_id, code, guild_id).table,
              settings |-> server_settings,
              returned |-> IF remove_watch(watched_sets, user_id, code, guild_id).returned
                           THEN "True" ELSE "False"]
      [] name = "get_user_watches" ->
             [table |-> watched_sets, settings |-> server_settings,
              returned |-> IF UserWatches(watched_sets, user_id, guild_id) = {}
                           THEN "[]" ELSE "rows"]
      [] name = "get_all_watches" ->
             [table |-> watched_sets, settings |-> server_settings,
              returned |-> IF get_all_watches(watched_sets) = << >> THEN "[]" ELSE "rows"]
      [] name = "update_watch_status" ->
             [table |-> update_watch_status(watched_sets, watch_id, "in_stock", None, now),
              settings |-> server_settings, returned |-> "None"]
      [] name = "get_notification_channel" ->
             [table |-> watched_sets, settings |-> server_settings,
              returned |-> IF get_notification_channel(server_settings, guild_id) = 0
                           THEN "None" ELSE "channel"]
      [] name = "set_notification_channel" ->
             [table |-> watched_sets,
              settings |-> [g \in DOMAIN server_settings |->
                               IF g = guild_id THEN 7 ELSE server_settings[g]],
              returned |-> "None"]
      [] OTHER ->
             [table |-> watched_sets,
              settings |-> [g \in DOMAIN server_settings |->
                               IF g = guild_id THEN 0 ELSE server_settings[g]],
              returned |-> "None"]

\* the arguments an operation is called with; those it does not take are fixed
ArgumentsOf(name) ==
    [user_id : IF name \in {"add_watch", "remove_watch", "get_user_watches"}
               THEN Users ELSE {1},
     guild_id : IF name \in {"get_all_watches", "update_watch_status"} THEN {0}
                ELSE IF name \in {"add_watch", "remove_watch", "get_user_watches"} THEN Guilds
                ELSE {1},
     set_code : IF name \in {"add_watch", "remove_watch"} THEN SetCodes ELSE {""},
     watch_id : IF name = "update_watch_status" THEN 1 .. MaxInserts ELSE {0}]

\* a Database() as constructed, over a store that holds two records
RepositoryInit ==
    /\ initialized = FALSE
    /\ last_call = NoCall

\* await bot.db.initialize() in main() and in setup_hook
Initialize ==
    /\ \E fault \in {"none", "initialize"} :
         IF initialized
         THEN /\ last_call' = [name |-> "initialize", fault |-> "none", raised |-> FALSE,
                               returned |-> "None", changed |-> FALSE]
              /\ UNCHANGED initialized
         ELSE /\ initialized' = (fault = "none")
              /\ last_call' = [name |-> "initialize", fault |-> fault,
                               raised |-> (fault = "initialize"), returned |-> "None",
                               changed |-> FALSE]
    /\ UNCHANGED << checkerVars, monitorVars, storeVars, callerVars, classifierVars,
                    deliveryVars, lifecycleVars >>

\* one of the operations: await self.initialize(), then the try block
Operation ==
    /\ \E name \in Operations :
         \E args \in ArgumentsOf(name), fault \in FaultsOf(name) :
            LET out == Outcome(name, args.user_id, args.guild_id, args.set_code, args.watch_id)
            IN  /\ next_id <= MaxInserts \/ out.table = watched_sets \/ name # "add_watch"
                /\ IF fault = "initialize"
                   THEN /\ last_call' = [name |-> name, fault |-> fault, raised |-> TRUE,
                                         returned |-> "None", changed |-> FALSE]
                        /\ UNCHANGED << initialized, watched_sets, server_settings, next_id >>
                   ELSE IF fault = "execute"
                   THEN /\ last_call' = [name |-> name, fault |-> fault, raised |-> FALSE,
                                         returned |-> FailureValue(name), changed |-> FALSE]
                        /\ initialized' = TRUE
                        /\ UNCHANGED << watched_sets, server_settings, next_id >>
                   ELSE /\ watched_sets' = out.table
                        /\ server_settings' = out.settings
                        /\ next_id' = IF name = "add_watch" /\ out.table # watched_sets
                                      THEN next_id + 1 ELSE next_id
                        /\ initialized' = TRUE
                        /\ last_call' =
                               [name |-> name, fault |-> fault, raised |-> FALSE,
                                returned |-> IF fault = "count" THEN FailureValue(name)
                                             ELSE out.returned,
                                changed |-> (out.table # watched_sets
                                             \/ out.settings # server_settings)]
    /\ UNCHANGED << now, running, mpc, watches, watch_idx, watch, watch_result, visited,
                    failed, cycles, persisted, emitted, attempts, sent, op >>
    /\ UNCHANGED << checkerVars, callerVars, classifierVars, deliveryVars, lifecycleVars >>

NextRepository == Initialize \/ Operation

InitRepository ==
    /\ RepositoryInit
    /\ MonitorIdle
    /\ StoreIdle
    /\ CheckerIdle
    /\ CallersIdle
    /\ ClassifierIdle
    /\ DeliveryIdle
    /\ LifecycleIdle

SpecRepository == InitRepository /\ [][NextRepository]_vars

\* C32: an operation in which the storage failed, its schema
\* initialisation included, does not raise, returns its failure value
\* (False, empty list, None) and leaves the stored records as they were.
C32_StorageFailureIsNoOp ==
    (last_call.name \in Operations /\ last_call.fault # "none") =>
        /\ ~ last_call.raised
        /\ last_call.returned = FailureValue(last_call.name)
        /\ ~ last_call.changed

(***************************************************************************)
(* The monitor over a watch that has been polled before: one record, made  *)
(* in guild 1, whose stored status is in_stock.                            *)
(***************************************************************************)
PolledRow(id, user_id, guild_id, code, status) ==
    [Row(id, user_id, guild_id, code) EXCEPT !.last_status = status, !.last_checked = 1]

WatchedInit ==
    /\ watched_sets = [id \in {1} |-> PolledRow(1, 1, 1, "10312", "in_stock")]
    /\ server_settings \in [{1} -> {0, 7}]
    /\ now = 1
    /\ running = FALSE
    /\ mpc = "unstarted"
    /\ watches = << >>
    /\ watch_idx = 0
    /\ watch = NoWatch
    /\ watch_result = NoResult
    /\ visited = << >>
    /\ failed = {}
    /\ cycles = 0
    /\ persisted = FALSE
    /\ emitted = << >>
    /\ attempts = << >>
    /\ sent = << >>
    /\ next_id = 2
    /\ op = NoOp

InitWatched == WatchedInit /\ CheckerIdle /\ AuxIdle

SpecWatched == InitWatched /\ [][NextMonitor]_vars

\* the unwatch command: bot.db.remove_watch(...).  Commands are coroutines
\* of the monitor's event loop: they run while the monitor task is
\* suspended in an await, or is not running
Unwatch ==
    /\ mpc \in Awaits \cup {"unstarted", "cancelled", "done"}
    /\ \E user_id \in Users, guild_id \in {1}, code \in {"10312"} :
         LET removed == remove_watch(watched_sets, user_id, code, guild_id)
         IN  /\ watched_sets' = removed.table
             /\ op' = [name |-> "remove_watch", user_id |-> user_id, guild_id |-> guild_id,
                       set_code |-> code, returned |-> removed.returned,
                       existed |-> RecordsOf(watched_sets, user_id, guild_id, code) # {}]
    /\ UNCHANGED << server_settings, now, running, mpc, watches, watch_idx, watch, watch_result,
                    visited, failed, cycles, persisted, emitted, attempts, sent >>
    /\ UNCHANGED << checkerVars, next_id, auxVars >>

NextUnwatch ==
    \/ Start
    \/ Stop
    \/ CycleBegin
    \/ LoadWatches
    \/ CheckWatch
    \/ CheckWatchFails
    \/ Persist
    \/ Notify
    \/ EndCheck
    \/ Sleep
    \/ Unwatch

SpecUnwatch == InitWatched /\ [][NextUnwatch]_vars

\* C33: a notification is sent for a watch only while its record is
\* stored: after the unwatch command has deleted the record, no send for
\* that watch succeeds, also in a cycle that loaded the record before.
C33_NoNotificationAfterUnwatch ==
    [][(sent' # sent /\ sent' # << >>) => watch.id \in DOMAIN watched_sets]_vars

\* C34: the new state is stored before the notification is sent, and a
\* check that finds the stored status and button again emits nothing: a
\* change whose notification was not delivered is not notified again.
C34_PersistedBeforeNotified ==
    /\ (mpc = "notify" \/ emitted # << >> \/ attempts # << >> \/ sent # << >>) =>
           persisted /\ RecordHoldsResult
    /\ (/\ persisted
        /\ watch.last_status = watch_result.status
        /\ watch.last_button_detected = watch_result.button_detected) => emitted = << >>

\* the second cycle found the status the first cycle had found; the first
\* cycle had stored it and called the send method for the change (the
\* record was in_stock before), whatever became of the delivery
C34_Witness ==
    /\ cycles = 2
    /\ mpc = "checked"
    /\ persisted
    /\ watch.last_status = "out_of_stock"
    /\ watch_result.status = "out_of_stock"
    /\ watch.last_button_detected = watch_result.button_detected
    /\ emitted = << >>

\* C35: an error result is stored and compared like any other status: a
\* check of a record whose stored status is set and differs from the new
\* one calls the status notification, also when one of the two is error,
\* and the record then holds the new status.
C35_ErrorIsDiffedLikeAnyStatus ==
    (CheckCompleted /\ persisted) =>
        /\ RecordHoldsResult
        /\ (watch.last_status # None /\ watch.last_status # watch_result.status)
               => emitted = << "status" >>

\* second poll: the record, in_stock at first, was stored as error by the
\* first poll; the second poll finds in_stock and notifies the status change
C35_Witness ==
    /\ cycles = 2
    /\ CheckCompleted
    /\ persisted
    /\ watch.last_status = "error"
    /\ watch_result.status = "in_stock"
    /\ emitted = << "status" >>
    /\ watched_sets[1].last_status = "in_stock"

(***************************************************************************)
(* The life of the monitor loop tasks.  loop_tasks holds one entry per     *)
(* task created by start(): pc is "created" (scheduled, not yet run),      *)
(* "cycle" (inside _check_all_watches), "sleep" (inside asyncio.sleep),    *)
(* "cancelling" (cancel() was called, the CancelledError is not yet        *)
(* raised in the task) or "done"; failed_cycle tells whether its last      *)
(* cycle ended by an exception.  Time is counted in minutes.               *)
(***************************************************************************)
MaxStarts == 3

MONITOR_INTERVAL_MINUTES == 5

LoopTask(at, after_failure) == [pc |-> at, failed_cycle |-> after_failure]

\* a start() without "if self.running: return"
NeverAlreadyRunning == FALSE

\* if self.running: ... return
AlreadyRunning == running

\* an exception of a cycle that is not caught in the loop ends the task
CycleFailureEndsLoop == "done"

\* "except Exception as e: logger.error(...)", then the sleep
AfterCycleFailure == "sleep"

\* the task can still run a step of the loop
Live(k) == loop_tasks[k].pc \in {"created", "cycle", "sleep"}

LifecycleInit ==
    /\ loop_tasks = << >>
    /\ task_handle = 0
    /\ elapsed = 0

\* Monitor.start(), from on_ready
StartCall ==
    /\ Len(loop_tasks) < MaxStarts
    /\ IF AlreadyRunning
       THEN UNCHANGED << running, loop_tasks, task_handle >>
       ELSE /\ running' = TRUE
            /\ loop_tasks' = Append(loop_tasks, LoopTask("created", FALSE))
            /\ task_handle' = Len(loop_tasks) + 1
    /\ UNCHANGED << watched_sets, server_settings, now, mpc, watches, watch_idx, watch,
                    watch_result, visited, failed, cycles, persisted, emitted, attempts, sent >>
    /\ UNCHANGED << checkerVars, storeVars, callerVars, classifierVars, deliveryVars,
                    repositoryVars, elapsed >>

\* Monitor.stop() up to its "await self.task"
StopCall ==
    /\ running' = FALSE
    /\ loop_tasks' =
           IF task_handle # 0 /\ Live(task_handle)
           THEN [loop_tasks EXCEPT ![task_handle].pc = "cancelling"]
           ELSE loop_tasks
    /\ UNCHANGED << watched_sets, server_settings, now, mpc, watches, watch_idx, watch,
                    watch_result, visited, failed, cycles, persisted, emitted, attempts, sent >>
    /\ UNCHANGED << checkerVars, storeVars, callerVars, classifierVars, deliveryVars,
                    repositoryVars, task_handle, elapsed >>

\* the steps of a task leave everything but loop_tasks and elapsed alone
TaskStepLeaves ==
    /\ UNCHANGED monitorVars
    /\ UNCHANGED << checkerVars, storeVars, callerVars, classifierVars, deliveryVars,
                    repositoryVars, task_handle >>

\* the CancelledError is raised at the await of the task: no handler of the
\* loop catches it, the task ends
TaskCancelled ==
    /\ \E k \in 1 .. Len(loop_tasks) :
         /\ loop_tasks[k].pc = "cancelling"
         /\ loop_tasks' = [loop_tasks EXCEPT ![k].pc = "done"]
    /\ UNCHANGED elapsed
    /\ TaskStepLeaves

\* the task runs for the first time: while self.running
TaskBegins ==
    /\ \E k \in 1 .. Len(loop_tasks) :
         /\ loop_tasks[k].pc = "created"
         /\ loop_tasks' = [loop_tasks EXCEPT ![k].pc = IF running THEN "cycle" ELSE "done"]
    /\ UNCHANGED elapsed
    /\ TaskStepLeaves

\* await self._check_all_watches() returns
CycleReturns ==
    /\ \E k \in 1 .. Len(loop_tasks) :
         /\ loop_tasks[k].pc = "cycle"
         /\ loop_tasks' = [loop_tasks EXCEPT ![k] = LoopTask("sleep", FALSE)]
    /\ elapsed' = 0
    /\ TaskStepLeaves

\* await self._check_all_watches() raises an Exception
CycleRaises ==
    /\ \E k \in 1 .. Len(loop_tasks) :
         /\ loop_tasks[k].pc = "cycle"
         /\ loop_tasks' = [loop_tasks EXCEPT ![k] = LoopTask(AfterCycleFailure, TRUE)]
    /\ elapsed' = 0
    /\ TaskStepLeaves

\* a minute of asyncio.sleep(self.interval_seconds) passes
Tick ==
    /\ \E k \in 1 .. Len(loop_tasks) : loop_tasks[k].pc = "sleep"
    /\ elapsed < MONITOR_INTERVAL_MINUTES
    /\ elapsed' = elapsed + 1
    /\ UNCHANGED loop_tasks
    /\ TaskStepLeaves

\* the sleep returns: while self.running
Wake ==
    /\ elapsed = MONITOR_INTERVAL_MINUTES
    /\ \E k \in 1 .. Len(loop_tasks) :
         /\ loop_tasks[k].pc = "sleep"
         /\ loop_tasks' = [loop_tasks EXCEPT ![k].pc = IF running THEN "cycle" ELSE "done"]
    /\ UNCHANGED elapsed
    /\ TaskStepLeaves

NextLifecycle ==
    \/ StartCall
    \/ StopCall
    \/ TaskCancelled
    \/ TaskBegins
    \/ CycleReturns
    \/ CycleRaises
    \/ Tick
    \/ Wake

InitLifecycle ==
    /\ LifecycleInit
    /\ MonitorIdle
    /\ StoreIdle
    /\ CheckerIdle
    /\ CallersIdle
    /\ ClassifierIdle
    /\ DeliveryIdle
    /\ RepositoryIdle

SpecLifecycle == InitLifecycle /\ [][NextLifecycle]_vars

LiveTasks == { k \in 1 .. Len(loop_tasks) : Live(k) }

\* C36: whatever start() and stop() calls were made, at most one loop task
\* can still run a step of the loop, and it is the one self.task refers to.
C36_AtMostOneLoop ==
    /\ Cardinality(LiveTasks) <= 1
    /\ LiveTasks \subseteq {task_handle}
    /\ LiveTasks # {} => running

\* start(), stop(), start(): the second task polls while the first one,
\* cancelled by stop(), has not ended yet
C36_Witness ==
    /\ Len(loop_tasks) = 2
    /\ loop_tasks[1].pc = "cancelling"
    /\ loop_tasks[2].pc = "cycle"
    /\ running

(***************************************************************************)
(* The same tasks under the scheduling of the event loop: a task that can  *)
(* take a step takes it (a cancelled task gets its CancelledError, a       *)
(* created task is run, the timer of asyncio.sleep advances and fires),    *)
(* and a cycle ends because each request of it returns or times out.       *)
(* Nothing forces start() or stop() to be called.                          *)
(***************************************************************************)
CycleEnds == CycleReturns \/ CycleRaises

LifecycleFairness ==
    /\ WF_vars(TaskCancelled)
    /\ WF_vars(TaskBegins)
    /\ WF_vars(CycleEnds)
    /\ WF_vars(Tick)
    /\ WF_vars(Wake)

SpecLifecycleFair == InitLifecycle /\ [][NextLifecycle]_vars /\ LifecycleFairness

InCycle == { k \in 1 .. Len(loop_tasks) : loop_tasks[k].pc = "cycle" }

\* a step in which task k enters a cycle
CycleStarts(k) ==
    /\ k \in 1 .. Len(loop_tasks)
    /\ loop_tasks[k].pc # "cycle"
    /\ loop_tasks'[k].pc = "cycle"

\* C37: while the monitor is running a cycle always comes (or the monitor is
\* stopped) and every cycle ends, whether it returned or raised; no two
\* cycles are in progress together; and a task enters a cycle only when it
\* runs for the first time or when, no cycle being in progress, the whole
\* interval has passed since its previous cycle ended.
C37_CyclesForeverNeverOverlapping ==
    /\ [](running => <>(~running \/ InCycle # {}))
    /\ [](InCycle # {} => <>(InCycle = {}))
    /\ [](Cardinality(InCycle) <= 1)
    /\ [][\A k \in 1 .. MaxStarts :
             CycleStarts(k) =>
                 /\ InCycle = {}
                 /\ \/ loop_tasks[k].pc = "created"
                    \/ /\ loop_tasks[k].pc = "sleep"
                       /\ elapsed = MONITOR_INTERVAL_MINUTES]_vars

\* a cycle that follows a cycle ended by an exception, the whole interval later
C37_Witness ==
    /\ task_handle # 0
    /\ loop_tasks[task_handle].pc = "cycle"
    /\ loop_tasks[task_handle].failed_cycle
    /\ elapsed = MONITOR_INTERVAL_MINUTES
    /\ running

(***************************************************************************)
(* The watch command beside the monitor, over a store that starts empty.   *)
(* op keeps the last call of the command with the status its check_stock   *)
(* returned (shown): that status goes into the reply, not into the record. *)
(* The command is given by one user in one guild for one set code, so the  *)
(* UNIQUE constraint keeps the store at one record.                        *)
(***************************************************************************)

\* the values of 'status' in a result of check_stock; of the result the
\* command reads the status to decide, the rest goes into its reply
ResultStatuses == {"in_stock", "out_of_stock", "pre_order", "unknown", "error"}

\* a watch command that adds whatever its check returned
RejectsNothing(checked) == FALSE

\* if result['status'] == 'error': ... return
RejectsWatch(checked) == checked.status = "error"

\* the watch command.  Commands are coroutines of the monitor's event loop:
\* they run while the monitor task is suspended in an await, or is not running
Watch ==
    /\ mpc \in Awaits \cup {"unstarted", "cancelled", "done"}
    /\ \E user_id \in {1}, guild_id \in {1}, code \in {"10312"} :
       \E shown \in ResultStatuses :
         LET checked == [status |-> shown]
             added == IF RejectsWatch(checked)
                      THEN [table |-> watched_sets, returned |-> FALSE]
                      ELSE add_watch(watched_sets, next_id, user_id, code, guild_id)
         IN  /\ watched_sets' = added.table
             /\ next_id' = IF added.table = watched_sets THEN next_id ELSE next_id + 1
             /\ op' = [name |-> "watch", user_id |-> user_id, guild_id |-> guild_id,
                       set_code |-> code, returned |-> added.returned,
                       existed |-> RecordsOf(watched_sets, user_id, guild_id, code) # {},
                       shown |-> checked.status]
    /\ UNCHANGED << server_settings, now, running, mpc, watches, watch_idx, watch, watch_result,
                    visited, failed, cycles, persisted, emitted, attempts, sent >>
    /\ UNCHANGED << checkerVars, auxVars >>

NextWatch ==
    \/ Start
    \/ Stop
    \/ CycleBegin
    \/ LoadWatches
    \/ CheckWatch
    \/ CheckWatchFails
    \/ Persist
    \/ Notify
    \/ EndCheck
    \/ Sleep
    \/ Watch

InitWatch == StoreInit /\ CheckerIdle /\ AuxIdle

SpecWatch == InitWatch /\ [][NextWatch]_vars

\* C38: a record appears in the store only by a watch command whose check
\* did not return 'error', and it appears with no last status; and the
\* check of a record loaded with no last status emits and sends nothing,
\* whatever status it finds.
C38_WatchValidatesAndFirstPollIsSilent ==
    /\ [][\A id \in DOMAIN watched_sets' \ DOMAIN watched_sets :
             /\ op'.name = "watch"
             /\ op'.shown # "error"
             /\ watched_sets'[id].last_status = None]_vars
    /\ [](watch.last_status = None => emitted = << >> /\ sent = << >>)

\* the command showed in_stock; the first poll of the record it created
\* found out_of_stock, stored it, and emitted nothing
C38_Witness ==
    /\ op.name = "watch"
    /\ op.returned
    /\ op.shown = "in_stock"
    /\ mpc = "checked"
    /\ persisted
    /\ watch.id = 1
    /\ watch.user_id = op.user_id
    /\ watch.set_code = op.set_code
    /\ watch.last_status = None
    /\ watch_result.status = "out_of_stock"
    /\ watched_sets[1].last_status = "out_of_stock"
    /\ emitted = << >>
    /\ sent = << >>

(***************************************************************************)
(* check_stock with each request returning or timing out: a call that has  *)
(* been entered goes on with its next step.  Nothing forces a new call.    *)
(***************************************************************************)
CallStep ==
    \/ RateLimit
    \/ Get
    \/ Recreate
    \/ Retry
    \/ Parse
    \/ Search

SpecCheckerFair == InitChecker /\ [][NextChecker]_vars /\ WF_vars(CallStep)

InCall == pc \in {"rate_limit", "get", "recreate", "retry", "parse", "search_get"}

\* C39: a call of check_stock that has been entered ends (it returns, or an
\* exception leaves it), and up to there it makes at most 3 requests for
\* each URL it fetches, the three candidates and the URL found by the
\* search, and 1 search request: 13 at most.
C39_BoundedRequests ==
    /\ [](InCall => <>(pc \in {"returned", "raised"}))
    /\ [](/\ requests <= 3 * Len(fetched) + (IF searched THEN 1 ELSE 0)
          /\ Len(fetched) <= 4
          /\ requests <= 13)

\* every candidate and the URL found by the search answered 403, before and
\* after the fresh session
C39_Witness ==
    /\ pc = "returned"
    /\ requests = 13
    /\ result.status = "error"
====
